---- MODULE Spec2Model ----
(***************************************************************************)
(* Session-state resolution of scripts/query-hooks.py (--waiting mode):    *)
(* run_waiting folds the JSONL event stream into one record per session,   *)
(* _output_sessions matches the records against the live claude processes  *)
(* (one pid per session, most recent session first) and derives a display  *)
(* state for each of them.                                                 *)
(*                                                                         *)
(* Strings that the code takes apart (working directories) are sequences   *)
(* of one-character strings; a Python dict is a function whose DOMAIN is   *)
(* the set of keys present, so dict.get(k, d) is Get(e, k, d).             *)
(***************************************************************************)
EXTENDS Integers, Sequences, FiniteSets, TLC

\* ------------------------------------------------------------- bounds
\* lines read from the log in one pass
MaxLines == 3
\* live claude processes in one /proc snapshot
MaxPids == 2
\* calls of project_name in a row
MaxCalls == 3
\* parent hops from a claude process up to the top of its process chain
MaxChain == 16
\* the pid of the claude process whose chain is walked
ChainBase == 50
\* iterations of the --watch loop
MaxPasses == 2
\* bytes the fan-out daemon reads from its stdin
MaxBytes == 3
\* subscribers that connect to the fan-out daemon, and readers that connect to
\* the output socket of a server
MaxClients == 2
\* requests a server handles
MaxRequests == 2
\* runs of install-hooks.py on the same settings file
MaxRuns == 2
\* calls of _find_git_root followed step by step
MaxWalks == 2
\* components of the deepest path _find_git_root is called with
MaxDepth == 22

VARIABLES
    \* run_waiting
    sessions,       \* dict session_id -> record
    sessions_keys,  \* key order of that dict (insertion order)
    nread,          \* lines consumed so far
    hist,           \* history of the lines consumed (ghost)
    ended,          \* session ids for which a SessionEnd was consumed (ghost)
    \* _output_sessions
    pc,             \* "read", "resolve", "sort", "done"; "fn" for a single function call
    without_dead,   \* --without-dead
    pid_cwd_map,    \* get_claude_pid_cwd_map(): sequence of <<pid, cwd>> in dict order
    sorted_sids,    \* sessions still to resolve, most recent first
    claimed_pids,   \* pids already attributed in this pass
    resolved,       \* session_id -> what its iteration found and did (ghost)
    records,        \* output records
    \* one call of a pure function
    fn_rec,         \* the record passed
    fn_map,         \* the pid -> cwd candidates passed, in dict order
    fn_ret,         \* [fn |-> name, val |-> returned value], or NoCall
    \* the world outside the program
    git_dirs,       \* the directories that hold a .git entry
    git_config,     \* directory -> what reading its .git/config gives
    pane_map,       \* get_tmux_pane_map(): shell pid -> TmuxInfo
    proc_ppid,      \* pid -> parent pid, for the pids whose /proc/<pid>/stat reads
    \* project_name
    _git_root_cache,
    _remote_name_cache,
    proj_calls,     \* the project_name calls made so far, oldest first (ghost)
    \* tmux correlation
    tmux_for_claude,    \* build_tmux_for_claude(): claude pid -> TmuxInfo
    records_no_tmux,    \* the records of the same pass under an empty pane map (ghost)
    \* --watch
    pass_no,        \* the iteration of the watch loop (1 without --watch)
    \* jsonl-fanout/fanout.py
    stdin_closed,   \* the upstream closed its end of the pipe and the pipe is drained
    stdin_buf,      \* bytes read that do not end a line yet
    lines_total,
    subscribers,    \* list of accepted client sockets
    backlog,        \* connections waiting in the listen queue
    sub_io,         \* [peer, received, closed]: the far end of each client socket,
                    \* the bytes that reached it, the sockets the daemon closed
    listener_open,  \* the listening socket is open
    socket_file,    \* the socket path exists
    exit_status,    \* NotExited while the daemon runs
    shutdown_msg,   \* what the daemon wrote to stderr when it left the event loop
    stdin_read,     \* every byte read from stdin so far (ghost)
    fan_log,        \* one entry per fan_out call (ghost)
    accepted_at,    \* client -> lines_total when it was accepted (ghost)
    \* tcp-observatory/server.py, unix-socket-observatory/server.py, server_selectors.py
    srv_conf,       \* [variant, output_socket, tee, peercred]: the server and its options
    srv_stdout,     \* what the server wrote to stdout, line by line
    _clients,       \* list of accepted output readers
    out_backlog,    \* readers waiting in the listen queue of the output socket
    out_io,         \* [peer, received, closed] of the output readers
    srv_log,        \* one entry per request handled (ghost)
    \* tcp-observatory/install-hooks.py
    settings_file,  \* [exists, content]: the target settings.json
    settings_backup,    \* [exists, content]: the last backup written
    inst_log        \* one entry per run: what was loaded and what was written (ghost)

envVars == <<git_dirs, git_config, pane_map, proc_ppid>>
projVars == <<_git_root_cache, _remote_name_cache, proj_calls>>
tmuxVars == <<tmux_for_claude, records_no_tmux>>
fanVars == <<stdin_closed, stdin_buf, lines_total, subscribers, backlog,
             sub_io, listener_open, socket_file, exit_status, shutdown_msg,
             stdin_read, fan_log, accepted_at>>
srvVars == <<srv_conf, srv_stdout, _clients, out_backlog, out_io, srv_log>>
\* the programs other than query-hooks.py
instVars == <<settings_file, settings_backup, inst_log>>
otherVars == <<fanVars, srvVars, instVars>>

vars == <<sessions, sessions_keys, nread, hist, ended, pc, without_dead, pid_cwd_map,
          sorted_sids, claimed_pids, resolved, records, fn_rec, fn_map, fn_ret,
          envVars, projVars, tmuxVars, pass_no, otherVars>>

\* ------------------------------------------------------------- values
\* Python None for last_event (an event dict is never empty: it has a session_id)
None == << >>
\* the empty string, for strings modelled as character sequences
EmptyStr == << >>
\* match_session_to_claude_pid found nothing (None; every real pid is >= 1)
NoPid == 0

Get(d, k, default) == IF k \in DOMAIN d THEN d[k] ELSE default

Min(S) == CHOOSE x \in S : \A y \in S : x <= y

Range(s) == {s[i] : i \in 1..Len(s)}

\* every enumeration order of a finite set, as duplicate-free sequences
Enumerations(S) ==
    {s \in [1..Cardinality(S) -> S] : \A i, j \in 1..Cardinality(S) : s[i] = s[j] => i = j}

\* working directories used by the sessions and the processes
P_p == <<"/", "p">>
P_p2 == <<"/", "p", "2">>
P_ps == <<"/", "p", "/", "s">>
P_pst == <<"/", "p", "/", "s", "/", "t">>
P_q == <<"/", "q">>
P_qs == <<"/", "q", "/", "s">>

TRACKED_EVENTS ==
    {"SessionStart", "Stop", "PermissionRequest", "Notification", "PreToolUse",
     "PostToolUse", "PostToolUseFailure", "UserPromptSubmit", "SubagentStart",
     "SubagentStop", "SessionEnd"}

WAITING_NOTIFICATION_TYPES == {"permission_prompt", "idle_prompt", "elicitation_dialog"}

\* ------------------------------------------------------------- pathlib
RECURSIVE SplitSlash(_, _, _)
\* the components of s from position i on, cur being the component read so far;
\* empty components and "." are dropped as PurePosixPath does
SplitSlash(s, i, cur) ==
    LET done == IF cur = << >> \/ cur = <<".">> THEN << >> ELSE <<cur>>
    IN  IF i > Len(s) THEN done
        ELSE IF s[i] = "/" THEN done \o SplitSlash(s, i + 1, << >>)
        ELSE SplitSlash(s, i + 1, Append(cur, s[i]))

IsAbsolute(s) == s # << >> /\ s[1] = "/"

\* Path(s).parts: the root, then the components
PathParts(s) == (IF IsAbsolute(s) THEN << <<"/">> >> ELSE << >>) \o SplitSlash(s, 1, << >>)

IsPrefix(a, b) == Len(a) <= Len(b) /\ SubSeq(b, 1, Len(a)) = a

\* a plausible slip: containment decided on the characters (str.startswith)
relative_to_startswith(path, other) == IsPrefix(other, path)

\* Path(path).relative_to(other) returns (TRUE) or raises ValueError (FALSE)
relative_to(path, other) ==
    LET to_parts == PathParts(other)
        abs_parts == PathParts(path)
    IN  IF to_parts = << >> THEN ~IsAbsolute(path) ELSE IsPrefix(to_parts, abs_parts)

\* ------------------------------------------------------------- liveness
RECURSIVE AncestorLoop(_, _, _, _)
\* the loop "for proc_cwd in live_cwds" of _liveness_check, from position i on
AncestorLoop(start_cwd, last_cwd, live_cwds, i) ==
    IF i > Len(live_cwds) THEN ""
    ELSE IF start_cwd # EmptyStr /\ relative_to(start_cwd, live_cwds[i]) THEN "ancestor:start"
    ELSE IF last_cwd # EmptyStr /\ last_cwd # start_cwd /\ relative_to(last_cwd, live_cwds[i])
         THEN "ancestor:last"
    ELSE AncestorLoop(start_cwd, last_cwd, live_cwds, i + 1)

\* live_cwds is a Python set: the sequence passed is the order in which this
\* call happens to enumerate it
_liveness_check(rec, live_cwds) ==
    LET start_cwd == Get(rec, "start_cwd", EmptyStr)
        last_cwd == Get(rec, "cwd", EmptyStr)
    IN  IF start_cwd # EmptyStr /\ start_cwd \in Range(live_cwds) THEN "exact:start"
        ELSE IF last_cwd # EmptyStr /\ last_cwd \in Range(live_cwds) THEN "exact:last"
        ELSE AncestorLoop(start_cwd, last_cwd, live_cwds, 1)

\* the state of the event-kind table of session_state, before the override
EventState(ev) ==
    LET etype == Get(ev, "_event", "")
        ntype == Get(ev, "notification_type", "")
    IN  IF etype = "Stop" THEN "FRESH"
        ELSE IF etype = "PermissionRequest" THEN "PERMIT"
        ELSE IF etype = "Notification" THEN
            (IF ntype = "idle_prompt" THEN "IDLE"
             ELSE IF ntype = "permission_prompt" THEN "PERMIT"
             ELSE IF ntype = "elicitation_dialog" THEN "QUESTION"
             ELSE "IDLE")
        ELSE IF etype = "PreToolUse" THEN "RUN:" \o Get(ev, "tool_name", "?")
        ELSE IF etype = "UserPromptSubmit" THEN "RUN:think"
        ELSE IF etype = "SubagentStart" THEN "RUN:agent"
        ELSE IF etype \in {"PostToolUse", "PostToolUseFailure", "SubagentStop"} THEN "RUN:done"
        ELSE IF etype = "SessionStart" THEN "RUN:start"
        ELSE "RUN:?"

\* a plausible slip: the final "dead process" override is left out
session_state_no_override(rec, live_cwds) ==
    IF rec.terminated THEN <<"TERMINATED", "">>
    ELSE LET match_method == _liveness_check(rec, live_cwds)
         IN  IF rec.last_event = None
             THEN (IF match_method = "" THEN <<"DEAD", "">> ELSE <<"RUN:?", match_method>>)
             ELSE <<EventState(rec.last_event), match_method>>

\* a plausible slip: two rows of the table exchanged (Stop and idle_prompt)
session_state_rows_swapped(rec, live_cwds) ==
    LET r == session_state_no_override(rec, live_cwds)
    IN  IF r[2] = "" /\ ~rec.terminated THEN <<"DEAD", "">>
        ELSE IF r[1] = "FRESH" THEN <<"IDLE", r[2]>>
        ELSE IF r[1] = "IDLE" THEN <<"FRESH", r[2]>>
        ELSE r

\* session_state returns <<state, liveness method>>
session_state(rec, live_cwds) ==
    IF rec.terminated THEN <<"TERMINATED", "">>
    ELSE LET ev == rec.last_event
             match_method == _liveness_check(rec, live_cwds)
         IN  IF ev = None
             THEN (IF match_method = "" THEN <<"DEAD", "">> ELSE <<"RUN:?", match_method>>)
             ELSE IF match_method = "" THEN <<"DEAD", "">>
             ELSE <<EventState(ev), match_method>>

\* a plausible slip: the two ancestry layers are left out of the pid search
match_session_to_claude_pid_exact_only(rec, map) ==
    LET start_cwd == Get(rec, "start_cwd", EmptyStr)
        last_cwd == Get(rec, "cwd", EmptyStr)
        n == Len(map)
        layer1 == {i \in 1..n : start_cwd # EmptyStr /\ map[i][2] = start_cwd}
        layer2 == {i \in 1..n : last_cwd # EmptyStr /\ map[i][2] = last_cwd}
    IN  IF layer1 # {} THEN map[Min(layer1)][1]
        ELSE IF layer2 # {} THEN map[Min(layer2)][1]
        ELSE NoPid

\* pid_cwd_map is a dict: a sequence of <<pid, cwd>> in its iteration order
match_session_to_claude_pid(rec, map) ==
    LET start_cwd == Get(rec, "start_cwd", EmptyStr)
        last_cwd == Get(rec, "cwd", EmptyStr)
        n == Len(map)
        layer1 == {i \in 1..n : start_cwd # EmptyStr /\ map[i][2] = start_cwd}
        layer2 == {i \in 1..n : last_cwd # EmptyStr /\ map[i][2] = last_cwd}
        layer3 == {i \in 1..n : start_cwd # EmptyStr /\ relative_to(start_cwd, map[i][2])}
        layer4 == {i \in 1..n : /\ last_cwd # EmptyStr
                                /\ last_cwd # start_cwd
                                /\ relative_to(last_cwd, map[i][2])}
    IN  IF layer1 # {} THEN map[Min(layer1)][1]
        ELSE IF layer2 # {} THEN map[Min(layer2)][1]
        ELSE IF layer3 # {} THEN map[Min(layer3)][1]
        ELSE IF layer4 # {} THEN map[Min(layer4)][1]
        ELSE NoPid

\* ------------------------------------------------------------- one function call
NoCall == [fn |-> "", val |-> ""]

\* the live_cwds set of a pid -> cwd map
CwdSet(map) == {map[i][2] : i \in 1..Len(map)}

\* the maps a /proc snapshot can give: up to MaxPids processes with any cwds, in
\* any order; a pid is only ever compared with another, so the process that
\* /proc lists in place i is given the pid i
PidMaps(cwds) ==
    UNION {{[i \in 1..n |-> <<i, c[i]>>] : c \in [1..n -> cwds]} : n \in 0..MaxPids}

\* working directories a record is given in the calls
FnPaths == {EmptyStr, P_p, P_p2, P_ps, P_q, P_qs}
\* working directories of the candidate processes in the calls
FnProcPaths == {P_p, P_q, P_ps}

FnTools == {"Bash"}
FnNotificationTypes == WAITING_NOTIFICATION_TYPES \cup {"auth_success"}

\* the last_event values session_state is called with
FnEvents ==
    {[_event |-> k, session_id |-> "s1", _ts |-> <<2>>] :
        k \in (TRACKED_EVENTS \ {"Notification", "PreToolUse"}) \cup {"PreCompact"}}
    \cup {[_event |-> "Notification", session_id |-> "s1", _ts |-> <<2>>,
           notification_type |-> t] : t \in FnNotificationTypes}
    \cup {[_event |-> "Notification", session_id |-> "s1", _ts |-> <<2>>]}
    \cup {[_event |-> "PreToolUse", session_id |-> "s1", _ts |-> <<2>>,
           tool_name |-> t] : t \in FnTools}
    \cup {[_event |-> "PreToolUse", session_id |-> "s1", _ts |-> <<2>>]}

IdleTracker ==
    /\ sessions = << >>
    /\ sessions_keys = << >>
    /\ nread = 0
    /\ hist = << >>
    /\ ended = {}

IdlePass ==
    /\ without_dead = FALSE
    /\ pid_cwd_map = << >>
    /\ sorted_sids = << >>
    /\ claimed_pids = {}
    /\ resolved = << >>
    /\ records = << >>

IdleFn ==
    /\ fn_rec = << >>
    /\ fn_map = << >>
    /\ fn_ret = NoCall

\* no repository, no tmux, no readable /proc/<pid>/stat
IdleWorld ==
    /\ git_dirs = {}
    /\ git_config = << >>
    /\ pane_map = << >>
    /\ proc_ppid = << >>

\* the module-level caches as the import leaves them
IdleProject ==
    /\ _git_root_cache = << >>
    /\ _remote_name_cache = << >>
    /\ proj_calls = << >>

IdleTmux ==
    /\ tmux_for_claude = << >>
    /\ records_no_tmux = << >>

\* the process has not exited
NotExited == -1

\* the far end of a client socket nobody connected yet
NoPeer == [st |-> "none", room |-> 0]

\* the fan-out daemon is not running
IdleFanout ==
    /\ stdin_closed = FALSE
    /\ stdin_buf = << >>
    /\ lines_total = 0
    /\ subscribers = << >>
    /\ backlog = << >>
    /\ sub_io = [peer |-> [c \in 1..MaxClients |-> NoPeer],
                 received |-> [c \in 1..MaxClients |-> << >>],
                 closed |-> {}]
    /\ listener_open = FALSE
    /\ socket_file = FALSE
    /\ exit_status = NotExited
    /\ shutdown_msg = ""
    /\ stdin_read = << >>
    /\ fan_log = << >>
    /\ accepted_at = << >>

\* no server is running
IdleServer ==
    /\ srv_conf = [variant |-> "none", output_socket |-> FALSE, tee |-> FALSE,
                   peercred |-> FALSE]
    /\ srv_stdout = << >>
    /\ _clients = << >>
    /\ out_backlog = << >>
    /\ out_io = [peer |-> [c \in 1..MaxClients |-> NoPeer],
                 received |-> [c \in 1..MaxClients |-> << >>],
                 closed |-> {}]
    /\ srv_log = << >>

\* there is no settings file and install-hooks.py has not run
NoFile == [exists |-> FALSE, content |-> << >>]

IdleInstall ==
    /\ settings_file = NoFile
    /\ settings_backup = NoFile
    /\ inst_log = << >>

IdleOther == IdleFanout /\ IdleServer /\ IdleInstall

\* query-hooks.py is not running
IdleQuery ==
    /\ IdleTracker
    /\ IdlePass
    /\ IdleFn
    /\ IdleWorld
    /\ IdleProject
    /\ IdleTmux
    /\ pass_no = 1

\* what the fan-out daemon leaves alone
notFanVars == <<sessions, sessions_keys, nread, hist, ended, without_dead, pid_cwd_map,
               sorted_sids, claimed_pids, resolved, records, fn_rec, fn_map, fn_ret,
               envVars, projVars, tmuxVars, pass_no, srvVars, instVars>>

\* what the servers leave alone
notSrvVars == <<sessions, sessions_keys, nread, hist, ended, without_dead, pid_cwd_map,
                sorted_sids, claimed_pids, resolved, records, fn_rec, fn_map, fn_ret,
                envVars, projVars, tmuxVars, pass_no, fanVars, instVars>>

\* what install-hooks.py leaves alone
notInstVars == <<sessions, sessions_keys, nread, hist, ended, without_dead, pid_cwd_map,
                 sorted_sids, claimed_pids, resolved, records, fn_rec, fn_map, fn_ret,
                 envVars, projVars, tmuxVars, pass_no, fanVars, srvVars>>

\* the inputs of a call: every pair of working directories against every candidate
\* map, or every last event (terminated or not) against a few of them
InitFn ==
    /\ pc = "fn"
    /\ IdleTracker
    /\ IdlePass
    /\ IdleWorld
    /\ IdleProject
    /\ IdleTmux
    /\ pass_no = 1
    /\ IdleOther
    /\ fn_ret = NoCall
    /\ \/ /\ fn_rec \in [last_event : {None}, terminated : {FALSE},
                         start_cwd : FnPaths, cwd : FnPaths]
          /\ fn_map \in PidMaps(FnProcPaths)
       \/ /\ fn_rec \in [last_event : FnEvents \cup {None}, terminated : BOOLEAN,
                         start_cwd : {EmptyStr, P_p}, cwd : {P_p, P_ps}]
          /\ fn_map \in PidMaps({P_p})

Call_liveness_check ==
    /\ pc = "fn"
    /\ \E live_cwds \in Enumerations(CwdSet(fn_map)) :
          fn_ret' = [fn |-> "_liveness_check", val |-> _liveness_check(fn_rec, live_cwds)]
    /\ UNCHANGED <<sessions, sessions_keys, nread, hist, ended, pc, without_dead, pid_cwd_map,
                   sorted_sids, claimed_pids, resolved, records, fn_rec, fn_map>>
    /\ UNCHANGED <<envVars, projVars, tmuxVars, pass_no, otherVars>>

Call_session_state ==
    /\ pc = "fn"
    /\ \E live_cwds \in Enumerations(CwdSet(fn_map)) :
          fn_ret' = [fn |-> "session_state", val |-> session_state(fn_rec, live_cwds)]
    /\ UNCHANGED <<sessions, sessions_keys, nread, hist, ended, pc, without_dead, pid_cwd_map,
                   sorted_sids, claimed_pids, resolved, records, fn_rec, fn_map>>
    /\ UNCHANGED <<envVars, projVars, tmuxVars, pass_no, otherVars>>

Call_match_session_to_claude_pid ==
    /\ pc = "fn"
    /\ fn_ret' = [fn |-> "match_session_to_claude_pid",
                  val |-> match_session_to_claude_pid(fn_rec, fn_map)]
    /\ UNCHANGED <<sessions, sessions_keys, nread, hist, ended, pc, without_dead, pid_cwd_map,
                   sorted_sids, claimed_pids, resolved, records, fn_rec, fn_map>>
    /\ UNCHANGED <<envVars, projVars, tmuxVars, pass_no, otherVars>>

NextFn ==
    \/ Call_liveness_check
    \/ Call_session_state
    \/ Call_match_session_to_claude_pid

SpecFn == InitFn /\ [][NextFn]_vars

\* ------------------------------------------------------------- project_name
\* iterations of the upward walk of _find_git_root: range(20)
FindGitRootHops == 20

RECURSIVE JoinSlash(_)
\* "/".join(parts)
JoinSlash(parts) ==
    IF parts = << >> THEN << >>
    ELSE IF Len(parts) = 1 THEN parts[1]
    ELSE parts[1] \o <<"/">> \o JoinSlash(Tail(parts))

\* str(Path): "." for the empty path, the root written once
PathStr(parts) ==
    IF parts = << >> THEN <<".">>
    ELSE IF parts[1] = <<"/">> THEN <<"/">> \o JoinSlash(Tail(parts))
    ELSE JoinSlash(parts)

\* Path.parent: the root and the empty path are their own parent
PathParent(parts) ==
    IF parts = << >> \/ parts = << <<"/">> >> THEN parts
    ELSE SubSeq(parts, 1, Len(parts) - 1)

\* a plausible slip: only the path asked for is cached
StoreRoot_path_only(cache, walked, path, result) ==
    [p \in DOMAIN cache \cup {path} |-> IF p = path THEN result ELSE cache[p]]

\* "for p in walked: cache[p] = result; cache[path] = result"
StoreRoot(cache, walked, path, result) ==
    [p \in DOMAIN cache \cup Range(walked) \cup {path} |->
        IF p \in Range(walked) \cup {path} THEN result ELSE cache[p]]

RECURSIVE FindGitRootLoop(_, _, _, _, _, _)
\* the loop of _find_git_root with `left` iterations to go; every directory
\* appended to walked has had one (current / ".git").exists() check
FindGitRootLoop(path, current, walked, left, cache, dirs) ==
    LET str == PathStr(current)
        walked2 == Append(walked, str)
    IN  IF left = 0
        THEN [result |-> None, cache |-> StoreRoot(cache, walked, path, None), walked |-> walked]
        ELSE IF str \in DOMAIN cache
        THEN [result |-> cache[str], cache |-> StoreRoot(cache, walked, path, cache[str]),
              walked |-> walked]
        ELSE IF str \in dirs
        THEN [result |-> str, cache |-> StoreRoot(cache, walked2, path, str), walked |-> walked2]
        ELSE IF PathParent(current) = current
        THEN [result |-> None, cache |-> StoreRoot(cache, walked2, path, None),
              walked |-> walked2]
        ELSE FindGitRootLoop(path, PathParent(current), walked2, left - 1, cache, dirs)

\* _find_git_root(path) under a cache and a filesystem: the value returned (None
\* when no root is found), the cache afterwards, the directories checked
_find_git_root(path, cache, dirs) ==
    IF path \in DOMAIN cache
    THEN [result |-> cache[path], cache |-> cache, walked |-> << >>]
    ELSE FindGitRootLoop(path, PathParts(path), << >>, FindGitRootHops, cache, dirs)

\* A remote URL is <<form, path>>: form "scp" for user@host:path, "https" or
\* "ssh" for scheme://host/path, anything else for a URL no pattern matches; the
\* path is written without its optional .git suffix. The patterns want a "/"
\* inside the path, with something on both sides.
_parse_org_repo(url) ==
    LET path == url[2]
    IN  IF /\ url[1] \in {"scp", "https", "ssh"}
           /\ \E i \in 2..(Len(path) - 1) : path[i] = "/"
        THEN path
        ELSE None

RECURSIVE RemoteOrder(_)
\* the keys of the dict `remotes` in insertion order; text is the sequence of
\* the url lines the parse finds inside remote sections, [remote, url] each
RemoteOrder(text) ==
    IF text = << >> THEN << >>
    ELSE LET before == RemoteOrder(SubSeq(text, 1, Len(text) - 1))
             name == text[Len(text)].remote
         IN  IF name \in Range(before) THEN before ELSE Append(before, name)

\* remotes[name]: the last url line of the remote wins
RemoteUrl(text, name) ==
    text[CHOOSE i \in 1..Len(text) :
            /\ text[i].remote = name
            /\ \A j \in (i + 1)..Len(text) : text[j].remote # name].url

RECURSIVE FirstParsed(_, _)
\* "for name in [origin] + others: result = _parse_org_repo(...); if result: return"
FirstParsed(text, names) ==
    IF names = << >> THEN None
    ELSE IF _parse_org_repo(RemoteUrl(text, Head(names))) # None
         THEN _parse_org_repo(RemoteUrl(text, Head(names)))
    ELSE FirstParsed(text, Tail(names))

\* _project_name_from_remote(git_root): what reading the config gives is
\* [kind |-> "OSError"] (also when there is no such file),
\* [kind |-> "UnicodeDecodeError"] (bytes that are no text in the locale's
\* encoding), or [kind |-> "text", remotes |-> ...]. raised names the exception
\* that leaves the function, "" when it returns.
_project_name_from_remote(git_root, cache, config) ==
    IF git_root \in DOMAIN cache
    THEN [result |-> cache[git_root], cache |-> cache, raised |-> "", reads |-> 0]
    ELSE LET read == Get(config, git_root, [kind |-> "OSError"])
         IN  IF read.kind = "OSError"
             THEN [result |-> None, cache |-> (git_root :> None) @@ cache,
                   raised |-> "", reads |-> 1]
             ELSE IF read.kind = "UnicodeDecodeError"
             THEN [result |-> None, cache |-> cache, raised |-> "UnicodeDecodeError",
                   reads |-> 1]
             ELSE LET order == RemoteOrder(read.remotes)
                      names == (IF "origin" \in Range(order) THEN <<"origin">> ELSE << >>)
                               \o SelectSeq(order, LAMBDA n : n # "origin")
                      result == FirstParsed(read.remotes, names)
                  IN  [result |-> result, cache |-> (git_root :> result) @@ cache,
                       raised |-> "", reads |-> 1]

\* the path-based name: "/".join(parts[-2:]), parts[-1], or "?"
PathName(base) ==
    LET parts == PathParts(base)
        n == Len(parts)
    IN  IF n >= 2 THEN JoinSlash(SubSeq(parts, n - 1, n))
        ELSE IF n = 1 THEN parts[1]
        ELSE <<"?">>

\* a plausible slip: the caches are filled but never consulted
project_name_uncached(path, gcache, rcache, dirs, config) ==
    IF path = EmptyStr
    THEN [val |-> <<"?">>, raised |-> "", gcache |-> gcache, rcache |-> rcache,
          exists |-> 0, reads |-> 0]
    ELSE LET found == _find_git_root(path, << >>, dirs)
             remote == IF found.result # None
                       THEN _project_name_from_remote(found.result, << >>, config)
                       ELSE [result |-> None, cache |-> << >>, raised |-> "", reads |-> 0]
         IN  [val |-> IF remote.raised # "" THEN None
                      ELSE IF remote.result # None THEN remote.result
                      ELSE PathName(IF found.result # None THEN found.result ELSE path),
              raised |-> remote.raised,
              gcache |-> found.cache @@ gcache,
              rcache |-> remote.cache @@ rcache,
              exists |-> Len(found.walked),
              reads |-> remote.reads]

\* project_name(path): the name returned (or the exception raised), the two
\* caches afterwards, the .git existence checks and the config reads it made
project_name(path, gcache, rcache, dirs, config) ==
    IF path = EmptyStr
    THEN [val |-> <<"?">>, raised |-> "", gcache |-> gcache, rcache |-> rcache,
          exists |-> 0, reads |-> 0]
    ELSE LET found == _find_git_root(path, gcache, dirs)
             remote == IF found.result # None
                       THEN _project_name_from_remote(found.result, rcache, config)
                       ELSE [result |-> None, cache |-> rcache, raised |-> "", reads |-> 0]
         IN  [val |-> IF remote.raised # "" THEN None
                      ELSE IF remote.result # None THEN remote.result
                      ELSE PathName(IF found.result # None THEN found.result ELSE path),
              raised |-> remote.raised,
              gcache |-> found.cache,
              rcache |-> remote.cache,
              exists |-> Len(found.walked),
              reads |-> remote.reads]

\* ------------------------------------------------------------- project_name calls
\* the directories that may hold a repository
ProjDirs == {P_p, P_ps}

\* the paths project_name is called with
ProjPaths == {EmptyStr, P_p, P_ps, P_pst, P_q, <<"/">>, <<"p">>}

Url_o_r == <<"scp", <<"o", "/", "r">> >>
Url_u_r == <<"https", <<"u", "/", "r">> >>
Url_r == <<"ssh", <<"r">> >>
Url_file == <<"file", <<"x", "/", "y">> >>

\* what reading a .git/config can give
ProjConfigs ==
    {[kind |-> "OSError"], [kind |-> "UnicodeDecodeError"]}
    \cup {[kind |-> "text", remotes |-> r] : r \in
            {<< >>,
             <<[remote |-> "origin", url |-> Url_o_r]>>,
             <<[remote |-> "upstream", url |-> Url_u_r], [remote |-> "origin", url |-> Url_o_r]>>,
             <<[remote |-> "origin", url |-> Url_file], [remote |-> "upstream", url |-> Url_u_r]>>,
             <<[remote |-> "origin", url |-> Url_r]>>,
             <<[remote |-> "origin", url |-> Url_o_r], [remote |-> "origin", url |-> Url_u_r]>>}}

\* any filesystem, empty caches
InitProject ==
    /\ pc = "project"
    /\ IdleTracker
    /\ IdlePass
    /\ IdleFn
    /\ IdleProject
    /\ IdleTmux
    /\ pass_no = 1
    /\ IdleOther
    /\ pane_map = << >>
    /\ proc_ppid = << >>
    /\ git_dirs \in SUBSET ProjDirs
    /\ git_config \in [git_dirs -> ProjConfigs]

\* one call project_name(path); an exception that leaves it ends the program
Call_project_name(path) ==
    /\ pc = "project"
    /\ Len(proj_calls) < MaxCalls
    /\ LET r == project_name(path, _git_root_cache, _remote_name_cache, git_dirs, git_config)
       IN  /\ _git_root_cache' = r.gcache
           /\ _remote_name_cache' = r.rcache
           /\ proj_calls' = Append(proj_calls, [path |-> path, val |-> r.val, raised |-> r.raised,
                                                exists |-> r.exists, reads |-> r.reads])
           /\ fn_ret' = [fn |-> "project_name", val |-> r.val]
           /\ pc' = IF r.raised # "" THEN "raised" ELSE pc
    /\ UNCHANGED <<sessions, sessions_keys, nread, hist, ended, without_dead, pid_cwd_map,
                   sorted_sids, claimed_pids, resolved, records, fn_rec, fn_map>>
    /\ UNCHANGED <<envVars, tmuxVars, pass_no, otherVars>>

NextProject == \E path \in ProjPaths : Call_project_name(path)

SpecProject == InitProject /\ [][NextProject]_vars

\* ------------------------------------------------------------- tmux correlation
\* iterations of the ancestor walk of build_tmux_for_claude: range(15)
TmuxHops == 15

\* TmuxInfo.target: "session:window.pane", with " [server]" for another server
\* than the default one; kept as the tuple of its parts
TmuxTarget(ti) ==
    <<ti.session_name, ti.window_index, ti.pane_index>>
    \o (IF ti.server_name # "" /\ ti.server_name # "default" THEN <<ti.server_name>> ELSE << >>)

RECURSIVE TmuxWalk_parent_first(_, _, _, _)
\* a plausible slip: the parent is looked up before the pid itself is
TmuxWalk_parent_first(pid, left, panes, ppid) ==
    IF left = 0 THEN None
    ELSE IF pid \notin DOMAIN ppid \/ ppid[pid] <= 1 THEN None
    ELSE IF ppid[pid] \in DOMAIN panes THEN panes[ppid[pid]]
    ELSE TmuxWalk_parent_first(ppid[pid], left - 1, panes, ppid)

RECURSIVE TmuxWalk(_, _, _, _)
\* the inner loop of build_tmux_for_claude with `left` iterations to go: the
\* pane found, or None; get_proc_ppid(pid) is None for a pid outside DOMAIN ppid
TmuxWalk(pid, left, panes, ppid) ==
    IF left = 0 THEN None
    ELSE IF pid \in DOMAIN panes THEN panes[pid]
    ELSE IF pid \notin DOMAIN ppid \/ ppid[pid] <= 1 THEN None
    ELSE TmuxWalk(ppid[pid], left - 1, panes, ppid)

\* build_tmux_for_claude(claude_pids, pane_map): claude pid -> TmuxInfo
build_tmux_for_claude(claude_pids, panes, ppid) ==
    IF panes = << >> THEN << >>
    ELSE LET pids == {claude_pids[i][1] : i \in 1..Len(claude_pids)}
             found == {pid \in pids : TmuxWalk(pid, TmuxHops, panes, ppid) # None}
         IN  [pid \in found |-> TmuxWalk(pid, TmuxHops, panes, ppid)]

\* a plausible slip: the pane's directory is shown as the session's cwd
AttachTmux_cwd(record, matched_pid, tfc) ==
    IF matched_pid # NoPid /\ matched_pid \in DOMAIN tfc
    THEN [tmux_session |-> tfc[matched_pid].session_name,
          tmux_window |-> tfc[matched_pid].window_index,
          tmux_pane |-> tfc[matched_pid].pane_index,
          tmux_cwd |-> tfc[matched_pid].pane_cwd,
          tmux_target |-> TmuxTarget(tfc[matched_pid])]
         @@ [record EXCEPT !.cwd = tfc[matched_pid].pane_cwd]
    ELSE record

\* "Tmux correlation": the record with the tmux_* fields of the matched pid
AttachTmux(record, matched_pid, tfc) ==
    IF matched_pid # NoPid /\ matched_pid \in DOMAIN tfc
    THEN [tmux_session |-> tfc[matched_pid].session_name,
          tmux_window |-> tfc[matched_pid].window_index,
          tmux_pane |-> tfc[matched_pid].pane_index,
          tmux_cwd |-> tfc[matched_pid].pane_cwd,
          tmux_target |-> TmuxTarget(tfc[matched_pid])]
         @@ record
    ELSE record

\* the pane of a shell pid
TmuxInfoOf(pid) ==
    [session_name |-> "main", window_index |-> "0", pane_index |-> pid, pane_cwd |-> P_q,
     server_name |-> IF pid % 2 = 0 THEN "default" ELSE "ubertmux"]

\* the parent relations: a chain of len hops above ChainBase whose top has no
\* readable parent, or init, or pid 0 as parent, or closes a cycle
ChainParents ==
    UNION {{[pid \in ChainBase..(ChainBase + len - 1) |-> pid + 1]} \cup
           {(ChainBase + len :> top) @@ [pid \in ChainBase..(ChainBase + len - 1) |-> pid + 1] :
               top \in {0, 1, ChainBase}} :
           len \in 0..MaxChain}

\* the pane maps: at most two of the pids of the chain are pane shells
ChainPanes ==
    {[pid \in S |-> TmuxInfoOf(pid)] :
        S \in {T \in SUBSET (ChainBase..(ChainBase + MaxChain)) : Cardinality(T) <= 2}}

\* one claude process, claimed by the session of the record fn_rec
InitTmux ==
    /\ pc = "tmux"
    /\ IdleTracker
    /\ IdlePass
    /\ IdleProject
    /\ IdleTmux
    /\ pass_no = 1
    /\ IdleOther
    /\ git_dirs = {}
    /\ git_config = << >>
    /\ proc_ppid \in ChainParents
    /\ pane_map \in ChainPanes
    /\ fn_rec = [session_id |-> "s1", state |-> "FRESH", cwd |-> P_p]
    /\ fn_map = << <<ChainBase, P_p>> >>
    /\ fn_ret = NoCall

\* build_tmux_for_claude is called and its result attached to the record of
\* the session that claimed the process
Call_build_tmux_for_claude ==
    /\ pc = "tmux"
    /\ tmux_for_claude' = build_tmux_for_claude(fn_map, pane_map, proc_ppid)
    /\ fn_ret' = [fn |-> "build_tmux_for_claude",
                  val |-> AttachTmux(fn_rec, fn_map[1][1], tmux_for_claude')]
    /\ UNCHANGED <<sessions, sessions_keys, nread, hist, ended, pc, without_dead, pid_cwd_map,
                   sorted_sids, claimed_pids, resolved, records, fn_rec, fn_map>>
    /\ UNCHANGED <<envVars, projVars, records_no_tmux, pass_no, otherVars>>

NextTmux == Call_build_tmux_for_claude

SpecTmux == InitTmux /\ [][NextTmux]_vars

\* ------------------------------------------------------------- run_waiting
\* event.get(k) is truthy: the key is present and its value is not empty
Truthy(event, k) == k \in DOMAIN event /\ event[k] # EmptyStr

_is_tracked_event(event) ==
    LET etype == Get(event, "_event", "")
    IN  IF etype \notin TRACKED_EVENTS THEN FALSE
        ELSE IF etype = "Notification"
             THEN Get(event, "notification_type", "") \in WAITING_NOTIFICATION_TYPES
        ELSE TRUE

\* a line of the log: blank after strip(), not starting with "{", not parsable
\* by json.loads, or a JSON object (obj is the parsed dict)
IsEventLine(line) == line.raw = "json"

\* the record created for an unseen session id
NewRecord(event) ==
    [last_event |-> None,
     last_event_type |-> "",
     terminated |-> FALSE,
     start_cwd |-> Get(event, "cwd", EmptyStr),
     cwd |-> Get(event, "cwd", EmptyStr)]

\* a plausible slip: start_cwd is never rewritten once the record exists
CaptureStartCwd_once(rec, event) == rec

\* "Capture start_cwd from SessionStart"
CaptureStartCwd(rec, event) ==
    IF Get(event, "_event", "") = "SessionStart" /\ Truthy(event, "cwd")
    THEN [rec EXCEPT !.start_cwd = event.cwd]
    ELSE rec

\* a plausible slip: every event kind is recorded as the last event
RecordLastEvent_any(rec, event) ==
    [rec EXCEPT !.terminated = @ \/ Get(event, "_event", "") = "SessionEnd",
                !.last_event = event,
                !.last_event_type = Get(event, "_event", "")]

\* a plausible slip: a SessionStart brings an ended session back
RecordLastEvent_resume(rec, event) ==
    LET etype == Get(event, "_event", "")
    IN  IF etype = "SessionEnd"
        THEN [rec EXCEPT !.terminated = TRUE, !.last_event = event, !.last_event_type = etype]
        ELSE IF _is_tracked_event(event)
        THEN [rec EXCEPT !.terminated = (@ /\ etype # "SessionStart"),
                         !.last_event = event, !.last_event_type = etype]
        ELSE rec

\* the SessionEnd / tracked-event branches
RecordLastEvent(rec, event) ==
    LET etype == Get(event, "_event", "")
    IN  IF etype = "SessionEnd"
        THEN [rec EXCEPT !.terminated = TRUE, !.last_event = event, !.last_event_type = etype]
        ELSE IF _is_tracked_event(event)
        THEN [rec EXCEPT !.last_event = event, !.last_event_type = etype]
        ELSE rec

\* a plausible slip: the cwd is taken from every event, also when it has none
UpdateCwd_always(rec, event) == [rec EXCEPT !.cwd = Get(event, "cwd", EmptyStr)]

\* a plausible slip: the event's cwd is taken as relative to the one known so far
UpdateCwd_joined(rec, event) ==
    IF Truthy(event, "cwd") THEN [rec EXCEPT !.cwd = @ \o event.cwd] ELSE rec

\* "Always update display cwd to latest"
UpdateCwd(rec, event) ==
    IF Truthy(event, "cwd") THEN [rec EXCEPT !.cwd = event.cwd] ELSE rec

\* a plausible slip: the test "if not sid: continue" is left out
HasSessionId_always(event) == TRUE

\* sid = event.get("session_id", "") is not empty
HasSessionId(event) == Get(event, "session_id", "") # ""

\* the body of the loop of run_waiting for an event that has a session_id:
\* the session map after it
Ingest(sess, event) ==
    LET sid == Get(event, "session_id", "")
        rec0 == IF sid \in DOMAIN sess THEN sess[sid] ELSE NewRecord(event)
        rec1 == UpdateCwd(rec0, event)
        rec2 == CaptureStartCwd(rec1, event)
        rec3 == RecordLastEvent(rec2, event)
    IN  [s \in DOMAIN sess \cup {sid} |-> IF s = sid THEN rec3 ELSE sess[s]]

\* the lines that reach the loop body: parsed, with a session id
IsIngested(line) == IsEventLine(line) /\ HasSessionId(line.obj)

\* the session map after one line of the log
AfterLine(sess, line) == IF IsIngested(line) THEN Ingest(sess, line.obj) ELSE sess

\* one iteration of "for line in iter_lines(sources)"
ReadLine(line) ==
    /\ pc = "read"
    /\ nread < MaxLines
    /\ nread' = nread + 1
    /\ sessions' = AfterLine(sessions, line)
    /\ sessions_keys' = IF DOMAIN sessions' = DOMAIN sessions
                        THEN sessions_keys
                        ELSE Append(sessions_keys, Get(line.obj, "session_id", ""))
    /\ ended' = IF IsIngested(line) /\ Get(line.obj, "_event", "") = "SessionEnd"
                THEN ended \cup {line.obj.session_id}
                ELSE ended
    /\ UNCHANGED <<pc, without_dead, pid_cwd_map, sorted_sids, claimed_pids, resolved,
                   records, fn_rec, fn_map, fn_ret>>
    /\ UNCHANGED <<envVars, projVars, tmuxVars, pass_no, otherVars>>

\* ------------------------------------------------------------- _output_sessions
VERSION == "0.7.0"

PermissionPrefix == "Claude needs your permission to use "

\* a plausible slip: the tool of a PreToolUse is given as the reason too
state_reason_tool_repeated(ev, state) ==
    IF ev = None THEN EmptyStr
    ELSE LET etype == Get(ev, "_event", "")
         IN  IF etype = "PreToolUse" THEN <<Get(ev, "tool_name", "?")>>
             ELSE IF etype \in {"PostToolUse", "PostToolUseFailure"}
                  THEN <<"after ", Get(ev, "tool_name", "?")>>
             ELSE IF etype = "SubagentStop" THEN <<"after agent">>
             ELSE EmptyStr

\* state_reason(ev, state). A text that the code takes apart or puts together
\* (message, reason) is the sequence of its pieces: the message "Claude needs
\* your permission to use Bash" is <<PermissionPrefix, "Bash">>, the empty
\* string is << >>.
state_reason(ev, state) ==
    IF ev = None THEN EmptyStr
    ELSE LET etype == Get(ev, "_event", "")
             ntype == Get(ev, "notification_type", "")
             msg == Get(ev, "message", EmptyStr)
         IN  IF etype = "Stop" THEN EmptyStr
             ELSE IF etype = "PermissionRequest" THEN <<Get(ev, "tool_name", "?")>>
             ELSE IF etype = "Notification" THEN
                 (IF ntype = "idle_prompt" THEN EmptyStr
                  ELSE IF ntype = "permission_prompt"
                       THEN (IF msg # EmptyStr /\ msg[1] = PermissionPrefix THEN Tail(msg) ELSE msg)
                  ELSE IF ntype = "elicitation_dialog" THEN msg
                  ELSE IF msg # EmptyStr THEN msg
                  ELSE IF ntype = "" THEN EmptyStr
                  ELSE <<ntype>>)
             ELSE IF etype \in {"PreToolUse", "UserPromptSubmit", "SubagentStart"} THEN EmptyStr
             ELSE IF etype \in {"PostToolUse", "PostToolUseFailure"}
                  THEN <<"after ", Get(ev, "tool_name", "?")>>
             ELSE IF etype = "SubagentStop" THEN <<"after agent">>
             ELSE EmptyStr

\* the parents of the claude processes of a pass: each has a shell of its own,
\* whose own parent cannot be read
ShellParents(map) == [pid \in {map[i][1] : i \in 1..Len(map)} |-> 100 + pid]

\* A _ts string is a sequence of numbers: <<t>> is the naive ISO time t (taken
\* as UTC), <<t, o>> the ISO time t with UTC offset +o, anything else (the
\* empty string too) does not parse.
_ts_sortval(ts_str) ==
    IF Len(ts_str) = 1 THEN ts_str[1]
    ELSE IF Len(ts_str) = 2 THEN ts_str[1] - ts_str[2]
    ELSE 0

\* (k1, k2) < (j1, j2) on Python tuples
KeyLess(a, b) == a[1] < b[1] \/ (a[1] = b[1] /\ a[2] < b[2])

RECURSIVE InsertByKey(_, _)
\* x put behind every item whose key is not greater: a stable insertion
InsertByKey(s, x) ==
    IF s = << >> THEN <<x>>
    ELSE IF KeyLess(x.key, s[Len(s)].key)
         THEN Append(InsertByKey(SubSeq(s, 1, Len(s) - 1), x), s[Len(s)])
    ELSE Append(s, x)

RECURSIVE SortByKey(_)
\* list.sort / sorted on [key, item] pairs: ascending, stable
SortByKey(s) ==
    IF s = << >> THEN << >>
    ELSE InsertByKey(SortByKey(SubSeq(s, 1, Len(s) - 1)), s[Len(s)])

Items(s) == [i \in 1..Len(s) |-> s[i].item]

\* the _ts the claiming order reads for a session
LastTs(rec) == IF rec.last_event = None THEN EmptyStr ELSE Get(rec.last_event, "_ts", EmptyStr)

\* a plausible slip: reverse=True forgotten, the oldest session is served first
SortedSids_ascending(sess, keys) ==
    Items(SortByKey([i \in 1..Len(keys) |->
        [key |-> <<0, _ts_sortval(LastTs(sess[keys[i]]))>>, item |-> keys[i]]]))

\* sorted(sessions.keys(), key=_ts_sortval(last _ts), reverse=True): descending,
\* sessions with equal keys stay in dict order
SortedSids(sess, keys) ==
    Items(SortByKey([i \in 1..Len(keys) |->
        [key |-> <<0, 0 - _ts_sortval(LastTs(sess[keys[i]]))>>, item |-> keys[i]]]))

\* a plausible slip: terminated sessions are not skipped
SkipsSession_never(rec) == FALSE

\* "Skip terminated sessions entirely"
SkipsSession(rec) == rec.terminated

\* a plausible slip: the claimed pids are not removed from the candidates
AvailPidCwd_all(map, claimed) == map

\* avail_pid_cwd: the candidates not claimed yet, in dict order
AvailPidCwd(map, claimed) == SelectSeq(map, LAMBDA e : e[1] \notin claimed)

\* a plausible slip: the matched pid is never recorded as claimed
Claim_never(claimed, matched_pid, state) == claimed

\* "if matched_pid and state != DEAD: claimed_pids.add(matched_pid)"
Claim(claimed, matched_pid, state) ==
    IF matched_pid # NoPid /\ state # "DEAD" THEN claimed \cup {matched_pid} ELSE claimed

\* the RUN:* states the model can produce (str.startswith("RUN:"))
RunStates ==
    {"RUN:" \o t : t \in {"?", "think", "agent", "done", "start", "Bash", "Edit"}}

\* a plausible slip: the RUN:* group is put behind DEAD
_state_sort_key_run_last(state) ==
    IF state \in RunStates THEN 6
    ELSE IF state = "FRESH" THEN 0
    ELSE IF state = "PERMIT" THEN 1
    ELSE IF state = "QUESTION" THEN 2
    ELSE IF state = "IDLE" THEN 3
    ELSE IF state = "DEAD" THEN 5
    ELSE 4

_state_sort_key(state) ==
    IF state \in RunStates THEN 4
    ELSE IF state = "FRESH" THEN 0
    ELSE IF state = "PERMIT" THEN 1
    ELSE IF state = "QUESTION" THEN 2
    ELSE IF state = "IDLE" THEN 3
    ELSE IF state = "DEAD" THEN 5
    ELSE 4

\* records.sort(key=(state group, -timestamp))
SortRecords(recs) ==
    Items(SortByKey([i \in 1..Len(recs) |->
        [key |-> <<_state_sort_key(recs[i].state), 0 - _ts_sortval(recs[i]._ts)>>,
         item |-> recs[i]]]))

\* the input is exhausted: _output_sessions is called (wd is its without_dead
\* argument), takes the /proc snapshot and orders the sessions
Snapshot(map, wd, panes) ==
    /\ pc = "read"
    /\ pc' = "resolve"
    /\ without_dead' = wd
    /\ pid_cwd_map' = map
    /\ pane_map' = panes
    /\ proc_ppid' = ShellParents(map)
    /\ tmux_for_claude' = build_tmux_for_claude(map, panes, ShellParents(map))
    /\ records_no_tmux' = << >>
    /\ sorted_sids' = SortedSids(sessions, sessions_keys)
    /\ claimed_pids' = {}
    /\ resolved' = << >>
    /\ records' = << >>
    /\ UNCHANGED <<sessions, sessions_keys, nread, hist, ended, fn_rec, fn_map, fn_ret>>
    /\ UNCHANGED <<git_dirs, git_config, projVars, pass_no, otherVars>>

\* an iteration of "for sid in sorted_sids" that hits "continue" at once
SkipTerminated ==
    /\ pc = "resolve"
    /\ sorted_sids # << >>
    /\ SkipsSession(sessions[Head(sorted_sids)])
    /\ sorted_sids' = Tail(sorted_sids)
    /\ UNCHANGED <<sessions, sessions_keys, nread, hist, ended, pc, without_dead,
                   pid_cwd_map, claimed_pids, resolved, records, fn_rec, fn_map, fn_ret>>
    /\ UNCHANGED <<envVars, projVars, tmuxVars, pass_no, otherVars>>

\* an iteration for a session that is not terminated: match a pid, derive the
\* state, claim the pid, build the record (which asks project_name) and append
\* it; an exception that leaves project_name ends the program
ResolveSession ==
    /\ pc = "resolve"
    /\ sorted_sids # << >>
    /\ ~SkipsSession(sessions[Head(sorted_sids)])
    /\ LET sid == Head(sorted_sids)
           rec == sessions[sid]
           avail_pid_cwd == AvailPidCwd(pid_cwd_map, claimed_pids)
           matched_pid == match_session_to_claude_pid(rec, avail_pid_cwd)
           start_cwd == Get(rec, "start_cwd", EmptyStr)
           proj == project_name(IF start_cwd # EmptyStr THEN start_cwd ELSE rec.cwd,
                                _git_root_cache, _remote_name_cache, git_dirs, git_config)
       IN  \E unclaimed_cwds \in Enumerations(CwdSet(avail_pid_cwd)) :
              LET st == session_state(rec, unclaimed_cwds)
                  state == st[1]
                  match_method == st[2]
                  record == [_ts |-> LastTs(rec),
                             session_id |-> sid,
                             state |-> state,
                             alive |-> (state # "DEAD"),
                             match |-> match_method,
                             reason |-> state_reason(rec.last_event, state),
                             cwd |-> rec.cwd,
                             start_cwd |-> start_cwd,
                             project |-> proj.val,
                             _version |-> VERSION]
              IN  /\ claimed_pids' = Claim(claimed_pids, matched_pid, state)
                  /\ resolved' = (sid :> [pid |-> matched_pid,
                                           claimed |-> matched_pid \in claimed_pids',
                                           state |-> state,
                                           match |-> match_method]) @@ resolved
                  /\ IF without_dead /\ state = "DEAD"
                     THEN UNCHANGED <<pc, records, records_no_tmux,
                                      _git_root_cache, _remote_name_cache>>
                     ELSE /\ _git_root_cache' = proj.gcache
                          /\ _remote_name_cache' = proj.rcache
                          /\ IF proj.raised # ""
                             THEN /\ pc' = "raised"
                                  /\ UNCHANGED <<records, records_no_tmux>>
                             ELSE /\ pc' = pc
                                  /\ records' = Append(records,
                                        AttachTmux(record, matched_pid, tmux_for_claude))
                                  /\ records_no_tmux' = Append(records_no_tmux,
                                        AttachTmux(record, matched_pid,
                                            build_tmux_for_claude(pid_cwd_map, << >>, proc_ppid)))
    /\ sorted_sids' = Tail(sorted_sids)
    /\ UNCHANGED <<sessions, sessions_keys, nread, hist, ended, without_dead,
                   pid_cwd_map, fn_rec, fn_map, fn_ret>>
    /\ UNCHANGED <<envVars, proj_calls, tmux_for_claude, pass_no, otherVars>>

\* the loop is over: the records are sorted and handed to the renderer
EmitRecords ==
    /\ pc = "resolve"
    /\ sorted_sids = << >>
    /\ pc' = "done"
    /\ records' = SortRecords(records)
    /\ records_no_tmux' = SortRecords(records_no_tmux)
    /\ UNCHANGED <<sessions, sessions_keys, nread, hist, ended, without_dead, pid_cwd_map,
                   sorted_sids, claimed_pids, resolved, fn_rec, fn_map, fn_ret>>
    /\ UNCHANGED <<envVars, projVars, tmux_for_claude, pass_no, otherVars>>

\* ------------------------------------------------------------- one pass
Sids == {"s1", "s2", "s3"}

\* the events of the log of a pass
PassEvents ==
    {[_event |-> "SessionStart", session_id |-> sid, cwd |-> c, _ts |-> <<t>>] :
        sid \in Sids, c \in {P_p, P_ps}, t \in {1, 2}}
    \cup {[_event |-> "Stop", session_id |-> sid, cwd |-> P_ps, _ts |-> <<2>>] :
        sid \in Sids}
    \cup {[_event |-> "SessionEnd", session_id |-> sid, cwd |-> P_p, _ts |-> <<2>>] :
        sid \in Sids}

PassLines == {[raw |-> "json", obj |-> e] : e \in PassEvents}

\* working directories of the live processes of a pass
PassProcPaths == {P_p, P_ps}

Init ==
    /\ pc = "read"
    /\ IdleTracker
    /\ IdlePass
    /\ IdleFn
    /\ IdleWorld
    /\ IdleProject
    /\ IdleTmux
    /\ pass_no = 1
    /\ IdleOther

\* run_waiting consumes the next line of the log
ReadLog == \E line \in PassLines : ReadLine(line) /\ UNCHANGED hist

\* run_waiting calls _output_sessions, which reads /proc
\* (no tmux server answers: the pane map is empty)
CallOutputSessions ==
    \E map \in PidMaps(PassProcPaths), wd \in BOOLEAN : Snapshot(map, wd, << >>)

Next ==
    \/ ReadLog
    \/ CallOutputSessions
    \/ SkipTerminated
    \/ ResolveSession
    \/ EmitRecords

Spec == Init /\ [][Next]_vars

\* ------------------------------------------------------------- the two bounded walks, step by step
\* a plausible slip: the loop has no bound ("while True")
WalkExhausted_never(iter, hops) == FALSE

\* "for _ in range(hops)" has no iteration left after iter of them
WalkExhausted(iter, hops) == iter >= hops

\* the pane maps of a walk: none, or one pane shell, which is the pid reached by
\* the last hop looked up, the one after it, or a pid that is not on the chain
WalkPanes ==
    {<< >>} \cup {(pid :> TmuxInfoOf(pid)) :
                    pid \in {ChainBase + TmuxHops - 1, ChainBase + TmuxHops, 7}}

\* the claude processes of a walk: the bottom of the chain, or it and its parent
WalkClaudePids ==
    {<< <<ChainBase, P_p>> >>, << <<ChainBase, P_p>>, <<ChainBase + 1, P_p>> >>}

InitTmuxWalk ==
    /\ pc = "walk"
    /\ IdleTracker
    /\ IdlePass
    /\ IdleProject
    /\ IdleTmux
    /\ pass_no = 1
    /\ IdleOther
    /\ git_dirs = {}
    /\ git_config = << >>
    /\ proc_ppid \in ChainParents
    /\ pane_map \in WalkPanes
    /\ fn_rec = << >>
    /\ fn_map \in WalkClaudePids
    /\ fn_ret = NoCall

\* the locals of build_tmux_for_claude once the inner loop for the claude pid
\* number idx is over: the next claude pid, or the return
TmuxNextClaudePid(idx, visited) ==
    IF idx < Len(fn_map)
    THEN [fn |-> "build_tmux_for_claude", idx |-> idx + 1, pid |-> fn_map[idx + 1][1],
          iter |-> 0, visited |-> Append(visited, << >>), done |-> FALSE]
    ELSE [fn |-> "build_tmux_for_claude", idx |-> idx, pid |-> NoPid,
          iter |-> 0, visited |-> visited, done |-> TRUE]

\* build_tmux_for_claude is entered: without panes it returns at once
Begin_build_tmux_for_claude ==
    /\ pc = "walk"
    /\ fn_map # << >>
    /\ fn_ret = NoCall
    /\ tmux_for_claude' = << >>
    /\ fn_ret' = IF pane_map = << >>
                 THEN [fn |-> "build_tmux_for_claude", idx |-> 0, pid |-> NoPid,
                       iter |-> 0, visited |-> << >>, done |-> TRUE]
                 ELSE [fn |-> "build_tmux_for_claude", idx |-> 1, pid |-> fn_map[1][1],
                       iter |-> 0, visited |-> << << >> >>, done |-> FALSE]
    /\ UNCHANGED <<sessions, sessions_keys, nread, hist, ended, pc, without_dead, pid_cwd_map,
                   sorted_sids, claimed_pids, resolved, records, fn_rec, fn_map>>
    /\ UNCHANGED <<envVars, projVars, records_no_tmux, pass_no, otherVars>>

\* one iteration of "for _ in range(15)": the pid is looked up in the pane map,
\* then its parent is read
Iterate_build_tmux_for_claude ==
    /\ pc = "walk"
    /\ fn_ret.fn = "build_tmux_for_claude"
    /\ ~fn_ret.done
    /\ LET idx == fn_ret.idx
           pid == fn_ret.pid
           visited == [fn_ret.visited EXCEPT ![idx] = Append(@, pid)]
       IN  IF pid \in DOMAIN pane_map
           THEN /\ tmux_for_claude' = (fn_map[idx][1] :> pane_map[pid]) @@ tmux_for_claude
                /\ fn_ret' = TmuxNextClaudePid(idx, visited)
           ELSE /\ UNCHANGED tmux_for_claude
                /\ fn_ret' =
                      IF pid \notin DOMAIN proc_ppid \/ proc_ppid[pid] <= 1
                      THEN TmuxNextClaudePid(idx, visited)
                      ELSE IF WalkExhausted(fn_ret.iter + 1, TmuxHops)
                      THEN TmuxNextClaudePid(idx, visited)
                      ELSE [fn_ret EXCEPT !.pid = proc_ppid[pid], !.iter = @ + 1,
                                          !.visited = visited]
    /\ UNCHANGED <<sessions, sessions_keys, nread, hist, ended, pc, without_dead, pid_cwd_map,
                   sorted_sids, claimed_pids, resolved, records, fn_rec, fn_map>>
    /\ UNCHANGED <<envVars, projVars, records_no_tmux, pass_no, otherVars>>

RECURSIVE DeepPath(_)
\* the absolute path of n components: "/", "/d", "/d/d", ...
DeepPath(n) ==
    IF n = 0 THEN <<"/">>
    ELSE IF n = 1 THEN <<"/", "d">>
    ELSE DeepPath(n - 1) \o <<"/", "d">>

\* the paths _find_git_root is called with: shallow ones, the deepest ones, and
\* a relative one
GitWalkPaths ==
    {DeepPath(n) : n \in {0, 2, 3, 5} \cup ((MaxDepth - 2)..MaxDepth)} \cup {<<"d">>}

\* the directories with a .git entry: none, /d, /d/d, or both /d and /d/d/d
GitWalkDirs == {{}, {DeepPath(1)}, {DeepPath(2)}, {DeepPath(1), DeepPath(3)}}

InitGitWalk ==
    /\ pc = "walk"
    /\ IdleTracker
    /\ IdlePass
    /\ IdleProject
    /\ IdleTmux
    /\ pass_no = 1
    /\ IdleOther
    /\ git_dirs \in GitWalkDirs
    /\ git_config = << >>
    /\ proc_ppid = << >>
    /\ pane_map = << >>
    /\ fn_rec = << >>
    /\ fn_map = << >>
    /\ fn_ret = NoCall

\* _find_git_root returns result: the directories walked and the path are
\* cached with it (the call, the cache it found and what it walked are noted)
GitWalkReturn(path, result, walked) ==
    /\ _git_root_cache' = StoreRoot(_git_root_cache, walked, path, result)
    /\ proj_calls' = Append(proj_calls, [path |-> path, val |-> result, walked |-> walked,
                                         before |-> _git_root_cache,
                                         after |-> _git_root_cache'])
    /\ fn_ret' = [fn |-> "_find_git_root", path |-> path, current |-> << >>,
                  walked |-> walked, iter |-> 0, done |-> TRUE]

\* _find_git_root(path) is entered: a cached path is answered at once
Begin_find_git_root(path) ==
    /\ pc = "walk"
    /\ fn_map = << >>
    /\ IF fn_ret = NoCall THEN TRUE ELSE fn_ret.done
    /\ Len(proj_calls) < MaxWalks
    /\ IF path \in DOMAIN _git_root_cache
       THEN /\ proj_calls' = Append(proj_calls,
                                    [path |-> path, val |-> _git_root_cache[path],
                                     walked |-> << >>, before |-> _git_root_cache,
                                     after |-> _git_root_cache])
            /\ fn_ret' = [fn |-> "_find_git_root", path |-> path, current |-> << >>,
                          walked |-> << >>, iter |-> 0, done |-> TRUE]
            /\ UNCHANGED _git_root_cache
       ELSE /\ fn_ret' = [fn |-> "_find_git_root", path |-> path,
                          current |-> PathParts(path), walked |-> << >>, iter |-> 0,
                          done |-> FALSE]
            /\ UNCHANGED <<_git_root_cache, proj_calls>>
    /\ UNCHANGED <<sessions, sessions_keys, nread, hist, ended, pc, without_dead, pid_cwd_map,
                   sorted_sids, claimed_pids, resolved, records, fn_rec, fn_map>>
    /\ UNCHANGED <<envVars, _remote_name_cache, tmuxVars, pass_no, otherVars>>

\* one iteration of "for _ in range(20)"
Iterate_find_git_root ==
    /\ pc = "walk"
    /\ fn_ret.fn = "_find_git_root"
    /\ ~fn_ret.done
    /\ LET path == fn_ret.path
           current == fn_ret.current
           str == PathStr(current)
           walked == Append(fn_ret.walked, str)
       IN  IF str \in DOMAIN _git_root_cache
           THEN GitWalkReturn(path, _git_root_cache[str], fn_ret.walked)
           ELSE IF str \in git_dirs
           THEN GitWalkReturn(path, str, walked)
           ELSE IF PathParent(current) = current
           THEN GitWalkReturn(path, None, walked)
           ELSE IF WalkExhausted(fn_ret.iter + 1, FindGitRootHops)
           THEN GitWalkReturn(path, None, walked)
           ELSE /\ fn_ret' = [fn_ret EXCEPT !.current = PathParent(current),
                                            !.walked = walked, !.iter = @ + 1]
                /\ UNCHANGED <<_git_root_cache, proj_calls>>
    /\ UNCHANGED <<sessions, sessions_keys, nread, hist, ended, pc, without_dead, pid_cwd_map,
                   sorted_sids, claimed_pids, resolved, records, fn_rec, fn_map>>
    /\ UNCHANGED <<envVars, _remote_name_cache, tmuxVars, pass_no, otherVars>>

InitWalk == InitTmuxWalk \/ InitGitWalk

NextWalk ==
    \/ Begin_build_tmux_for_claude
    \/ Iterate_build_tmux_for_claude
    \/ \E path \in GitWalkPaths : Begin_find_git_root(path)
    \/ Iterate_find_git_root

SpecWalk == InitWalk /\ [][NextWalk]_vars

\* a loop that was entered goes on with its next iteration: nothing in the
\* two functions waits for anything
SpecWalkFair ==
    SpecWalk /\ WF_vars(Iterate_build_tmux_for_claude) /\ WF_vars(Iterate_find_git_root)

\* ------------------------------------------------------------- state and reason of a record
\* _output_sessions derives the state of a record and then its reason
Call_state_reason ==
    /\ pc = "fn"
    /\ \E unclaimed_cwds \in Enumerations(CwdSet(fn_map)) :
          LET state == session_state(fn_rec, unclaimed_cwds)[1]
          IN  fn_ret' = [fn |-> "state_reason",
                         val |-> [state |-> state,
                                  reason |-> state_reason(fn_rec.last_event, state)]]
    /\ UNCHANGED <<sessions, sessions_keys, nread, hist, ended, pc, without_dead, pid_cwd_map,
                   sorted_sids, claimed_pids, resolved, records, fn_rec, fn_map>>
    /\ UNCHANGED <<envVars, projVars, tmuxVars, pass_no, otherVars>>

InitReason == InitFn

NextReason == Call_state_reason

SpecReason == InitReason /\ [][NextReason]_vars

\* ------------------------------------------------------------- a pass over any timestamps
\* the _ts strings of a log: a time after the epoch, one with a UTC offset, the
\* epoch itself, a time before the epoch, and a string that is no ISO time
OrderTimestamps == {<<2>>, <<3, 2>>, <<0>>, <<-1>>, <<1, 1, 1>>}

\* the events of such a log, all from /p: a Stop with each _ts and one without
\* _ts, an event of a kind that is not tracked, and a SessionEnd
OrderEvents ==
    {[_event |-> "Stop", session_id |-> sid, cwd |-> P_p, _ts |-> t] :
        sid \in Sids, t \in OrderTimestamps}
    \cup {[_event |-> "Stop", session_id |-> sid, cwd |-> P_p] : sid \in Sids}
    \cup {[_event |-> k, session_id |-> sid, cwd |-> P_p, _ts |-> <<2>>] :
        sid \in Sids, k \in {"PreCompact", "SessionEnd"}}

OrderLines == {[raw |-> "json", obj |-> e] : e \in OrderEvents}

InitOrder == Init

ReadLogOrder == \E line \in OrderLines : ReadLine(line) /\ UNCHANGED hist

\* _output_sessions reads /proc: the claude processes, if any, are all in /p
CallOutputSessionsOrder == \E map \in PidMaps({P_p}) : Snapshot(map, FALSE, << >>)

NextOrder ==
    \/ ReadLogOrder
    \/ CallOutputSessionsOrder
    \/ SkipTerminated
    \/ ResolveSession
    \/ EmitRecords

SpecOrder == InitOrder /\ [][NextOrder]_vars

\* ------------------------------------------------------------- a pass over nested directories
\* the events of the log: two sessions, started in /p or in /p/s/t, which end
NestedEvents ==
    {[_event |-> "SessionStart", session_id |-> sid, cwd |-> c, _ts |-> <<t>>] :
        sid \in {"s1", "s2"}, c \in {P_p, P_pst}, t \in {1, 2}}
    \cup {[_event |-> "SessionEnd", session_id |-> sid, cwd |-> P_p, _ts |-> <<2>>] :
        sid \in {"s1", "s2"}}

NestedLines == {[raw |-> "json", obj |-> e] : e \in NestedEvents}

InitNested == Init

ReadLogNested == \E line \in NestedLines : ReadLine(line) /\ UNCHANGED hist

\* _output_sessions reads /proc: the claude processes are in /p or in /p/s
CallOutputSessionsNested ==
    \E map \in PidMaps({P_p, P_ps}) : Snapshot(map, FALSE, << >>)

NextNested ==
    \/ ReadLogNested
    \/ CallOutputSessionsNested
    \/ SkipTerminated
    \/ ResolveSession
    \/ EmitRecords

SpecNested == InitNested /\ [][NextNested]_vars

RECURSIVE PassStates(_, _, _, _)
\* the loop "for sid in sorted_sids" of _output_sessions in one piece: the
\* states it can give the sessions, as functions sid -> state, one for every
\* way the candidate cwd sets can be enumerated
PassStates(sids, sess, map, claimed) ==
    IF sids = << >> THEN {<< >>}
    ELSE LET sid == Head(sids)
             rec == sess[sid]
             avail_pid_cwd == AvailPidCwd(map, claimed)
             matched_pid == match_session_to_claude_pid(rec, avail_pid_cwd)
         IN  IF SkipsSession(rec) THEN PassStates(Tail(sids), sess, map, claimed)
             ELSE UNION {
                    {(sid :> session_state(rec, unclaimed_cwds)[1]) @@ rest :
                        rest \in PassStates(Tail(sids), sess, map,
                                            Claim(claimed, matched_pid,
                                                  session_state(rec, unclaimed_cwds)[1]))} :
                    unclaimed_cwds \in Enumerations(CwdSet(avail_pid_cwd))}

\* the orders in which /proc can list the same processes
MapOrders(map) ==
    {[i \in 1..Len(map) |-> map[perm[i]]] : perm \in Enumerations(1..Len(map))}

\* ------------------------------------------------------------- the --watch loop
\* a plausible slip: the caches are kept from one iteration to the next
ClearedCache_kept(cache) == cache

\* _git_root_cache.clear(), _remote_name_cache.clear()
ClearedCache(cache) == << >>

\* The pass is over and its output written; after the sleep the loop of main
\* starts the next iteration: the caches are cleared and _run_once calls
\* run_waiting, which starts from an empty session map. The filesystem may
\* have changed in the meantime (dirs, config are what it holds now).
NextIteration(dirs, config) ==
    /\ pc = "done"
    /\ pass_no < MaxPasses
    /\ pass_no' = pass_no + 1
    /\ _git_root_cache' = ClearedCache(_git_root_cache)
    /\ _remote_name_cache' = ClearedCache(_remote_name_cache)
    /\ git_dirs' = dirs
    /\ git_config' = config
    /\ pc' = "read"
    /\ sessions' = << >>
    /\ sessions_keys' = << >>
    /\ nread' = 0
    /\ hist' = << >>
    /\ ended' = {}
    /\ without_dead' = FALSE
    /\ pid_cwd_map' = << >>
    /\ sorted_sids' = << >>
    /\ claimed_pids' = {}
    /\ resolved' = << >>
    /\ records' = << >>
    /\ pane_map' = << >>
    /\ proc_ppid' = << >>
    /\ tmux_for_claude' = << >>
    /\ records_no_tmux' = << >>
    /\ UNCHANGED <<fn_rec, fn_map, fn_ret, proj_calls, otherVars>>

\* the log of a watched pass
WatchEvents ==
    {[_event |-> "SessionStart", session_id |-> "s1", cwd |-> P_p, _ts |-> <<1>>],
     [_event |-> "SessionStart", session_id |-> "s1", cwd |-> P_ps, _ts |-> <<2>>],
     [_event |-> "SessionStart", session_id |-> "s2", cwd |-> P_p, _ts |-> <<2>>],
     [_event |-> "PostToolUse", session_id |-> "s2", cwd |-> P_ps, _ts |-> <<1>>,
      tool_name |-> "Bash"],
     [_event |-> "SessionEnd", session_id |-> "s1", cwd |-> P_p, _ts |-> <<2>>]}

WatchLines == {[raw |-> "json", obj |-> e] : e \in WatchEvents}

\* what the filesystem can hold during a pass: no repository, or /p as one
\* whose config has a remote or cannot be opened
WatchWorlds ==
    {[dirs |-> {}, config |-> << >>],
     [dirs |-> {P_p},
      config |-> (P_p :> [kind |-> "text",
                          remotes |-> <<[remote |-> "origin", url |-> Url_o_r]>>])],
     [dirs |-> {P_p}, config |-> (P_p :> [kind |-> "OSError"])]}

\* the pane maps of a pass: no tmux, or the shell of the first process in a pane
WatchPanes == {<< >>, (101 :> TmuxInfoOf(101))}

InitWatch ==
    /\ pc = "read"
    /\ IdleTracker
    /\ IdlePass
    /\ IdleFn
    /\ IdleProject
    /\ IdleTmux
    /\ pass_no = 1
    /\ IdleOther
    /\ pane_map = << >>
    /\ proc_ppid = << >>
    /\ \E w \in WatchWorlds : git_dirs = w.dirs /\ git_config = w.config

ReadLogWatch == \E line \in WatchLines : ReadLine(line) /\ hist' = Append(hist, line)

CallOutputSessionsWatch ==
    \E map \in PidMaps({P_p}), wd \in BOOLEAN, panes \in WatchPanes :
        Snapshot(map, wd, panes)

SleepAndRepeat == \E w \in WatchWorlds : NextIteration(w.dirs, w.config)

NextWatch ==
    \/ ReadLogWatch
    \/ CallOutputSessionsWatch
    \/ SkipTerminated
    \/ ResolveSession
    \/ EmitRecords
    \/ SleepAndRepeat

SpecWatch == InitWatch /\ [][NextWatch]_vars

\* ------------------------------------------------------------- the event fold alone
\* the events of session s1: every kind of interest, with and without a cwd
IngestEventsS1 ==
    {[_event |-> k, session_id |-> "s1", _ts |-> <<1>>] :
        k \in {"SessionStart", "Stop", "SessionEnd", "PreCompact"}}
    \cup {[_event |-> k, session_id |-> "s1", _ts |-> <<1>>, cwd |-> c] :
        k \in {"SessionStart", "Stop", "SessionEnd", "PreCompact"}, c \in {P_p, P_q}}
    \cup {[_event |-> "Notification", session_id |-> "s1", _ts |-> <<1>>, cwd |-> P_q,
           notification_type |-> t] : t \in {"idle_prompt", "auth_success"}}
    \cup {[_event |-> "Notification", session_id |-> "s1", _ts |-> <<1>>, cwd |-> P_q],
          [_event |-> "Stop", session_id |-> "s1", _ts |-> <<1>>, cwd |-> EmptyStr]}

\* a second session, events without a session id, and lines that are no event
IngestLines ==
    {[raw |-> "json", obj |-> e] : e \in IngestEventsS1}
    \cup {[raw |-> "json", obj |-> [_event |-> k, session_id |-> "s2", _ts |-> <<1>>, cwd |-> P_p]] :
            k \in {"SessionStart", "SessionEnd"}}
    \cup {[raw |-> "json", obj |-> [_event |-> "Stop", _ts |-> <<1>>, cwd |-> P_p]],
          [raw |-> "json", obj |-> [_event |-> "Stop", session_id |-> "", _ts |-> <<1>>, cwd |-> P_p]],
          [raw |-> "blank"], [raw |-> "text"], [raw |-> "badjson"]}

InitIngest == Init

\* run_waiting consumes the next line, which is noted in the history
ReadLogTraced == \E line \in IngestLines : ReadLine(line) /\ hist' = Append(hist, line)

NextIngest == ReadLogTraced

SpecIngest == InitIngest /\ [][NextIngest]_vars

\* ------------------------------------------------------------- the final sort alone
SortStates == {"FRESH", "PERMIT", "QUESTION", "IDLE", "RUN:Bash", "RUN:think", "DEAD"}

SortTs == {<<1>>, <<2>>, EmptyStr}

\* the record lists the loop of _output_sessions can leave behind: the sessions
\* were served by descending timestamp, so the list is in that order
SortInputs ==
    UNION {{s \in [1..n -> [session_id : {"s1"}, state : SortStates, _ts : SortTs]] :
              \A i \in 1..(n - 1) : _ts_sortval(s[i]._ts) >= _ts_sortval(s[i + 1]._ts)} :
           n \in 0..MaxLines}

\* the loop is over; fn_rec keeps the list as it was before records.sort
InitSort ==
    /\ pc = "resolve"
    /\ IdleTracker
    /\ without_dead = FALSE
    /\ pid_cwd_map = << >>
    /\ sorted_sids = << >>
    /\ claimed_pids = {}
    /\ resolved = << >>
    /\ records \in SortInputs
    /\ IdleWorld
    /\ IdleProject
    /\ IdleTmux
    /\ pass_no = 1
    /\ IdleOther
    /\ fn_rec = records
    /\ fn_map = << >>
    /\ fn_ret = NoCall

NextSort == EmitRecords

SpecSort == InitSort /\ [][NextSort]_vars

\* ------------------------------------------------------------- jsonl-fanout/fanout.py
\* A byte string is the sequence of its bytes.
NL == "\n"

StdinBytes == {"x", NL}

\* b"\n" in buf
HasNL(buf) == NL \in Range(buf)

\* a plausible slip: the buffer is split at its last newline (rsplit)
SplitNL_at_last(buf) ==
    LET i == CHOOSE j \in 1..Len(buf) : buf[j] = NL /\ \A k \in (j + 1)..Len(buf) : buf[k] # NL
    IN  <<SubSeq(buf, 1, i - 1), SubSeq(buf, i + 1, Len(buf))>>

\* buf.split(b"\n", 1): what stands before the first newline and what follows it
SplitNL(buf) ==
    LET k == CHOOSE i \in 1..Len(buf) : buf[i] = NL /\ \A j \in 1..(i - 1) : buf[j] # NL
    IN  <<SubSeq(buf, 1, k - 1), SubSeq(buf, k + 1, Len(buf))>>

\* list.remove(x): the first element equal to x goes
ListRemove(seq, x) ==
    LET k == CHOOSE i \in 1..Len(seq) : seq[i] = x /\ \A j \in 1..(i - 1) : seq[j] # x
    IN  SubSeq(seq, 1, k - 1) \o SubSeq(seq, k + 1, Len(seq))

\* client.sendall(data) on a non-blocking socket whose far end is p: a far end
\* that is gone gives BrokenPipeError with nothing delivered; one that does not
\* read takes what its buffer has room for, and the rest gives BlockingIOError
SendAll(p, data) ==
    IF p.st = "gone" THEN [ok |-> FALSE, sent |-> 0]
    ELSE IF p.st = "slow" /\ p.room < Len(data) THEN [ok |-> FALSE, sent |-> p.room]
    ELSE [ok |-> TRUE, sent |-> Len(data)]

\* the far end and what reached it, after sendall(data) delivered r.sent bytes
AfterSend(io, client, data, r) ==
    [io EXCEPT !.received[client] = @ \o SubSeq(data, 1, r.sent),
               !.peer[client].room = IF io.peer[client].st = "slow" THEN @ - r.sent ELSE @]

\* a plausible slip: the failing client is removed inside the sending loop, so
\* the loop skips the client that follows it in the list
RECURSIVE FanOutSend_remove_in_loop(_, _, _, _, _)
FanOutSend_remove_in_loop(line, subs, i, dead, io) ==
    IF i > Len(subs) THEN [dead |-> dead, io |-> io]
    ELSE LET client == subs[i]
             r == SendAll(io.peer[client], line)
         IN  IF r.ok
             THEN FanOutSend_remove_in_loop(line, subs, i + 1, dead,
                                            AfterSend(io, client, line, r))
             ELSE FanOutSend_remove_in_loop(line, ListRemove(subs, client), i + 1,
                                            Append(dead, client),
                                            AfterSend(io, client, line, r))

\* fan_out, first loop: for client in subscribers: try sendall, except: dead.append
RECURSIVE FanOutSend(_, _, _, _, _)
FanOutSend(line, subs, i, dead, io) ==
    IF i > Len(subs) THEN [dead |-> dead, io |-> io]
    ELSE LET client == subs[i]
             r == SendAll(io.peer[client], line)
         IN  FanOutSend(line, subs, i + 1,
                        IF r.ok THEN dead ELSE Append(dead, client),
                        AfterSend(io, client, line, r))

\* a plausible slip: the second loop ends after its first client
FanOutDrop_first_only(subs, dead, io) ==
    IF dead = << >> THEN [subscribers |-> subs, io |-> io]
    ELSE [subscribers |-> ListRemove(subs, Head(dead)),
          io |-> [io EXCEPT !.closed = @ \cup {Head(dead)}]]

\* fan_out, second loop: for client in dead: subscribers.remove(client); client.close()
RECURSIVE FanOutDrop(_, _, _)
FanOutDrop(subs, dead, io) ==
    IF dead = << >> THEN [subscribers |-> subs, io |-> io]
    ELSE FanOutDrop(ListRemove(subs, Head(dead)), Tail(dead),
                    [io EXCEPT !.closed = @ \cup {Head(dead)}])

\* fan_out(line, subscribers): the list and the sockets afterwards, the clients
\* found dead and the value returned
fan_out(line, subs, io) ==
    LET sent == FanOutSend(line, subs, 1, << >>, io)
        dropped == FanOutDrop(subs, sent.dead, sent.io)
    IN  [subscribers |-> dropped.subscribers, io |-> dropped.io,
         dead |-> sent.dead, ret |-> Len(sent.dead)]

\* the far end of a client is reading, or has room left for the whole of data
Healthy(p, data) == p.st = "reading" \/ (p.st = "slow" /\ p.room >= Len(data))

\* a plausible slip: a complete line waits in the buffer for a subscriber
DrainLines_wait_for_subscriber(d) ==
    IF ~HasNL(d.buf) \/ d.subscribers = << >> THEN d
    ELSE LET line == SplitNL(d.buf)[1]
             complete_line == Append(line, NL)
             f == fan_out(complete_line, d.subscribers, d.io)
         IN  [buf |-> SplitNL(d.buf)[2],
              subscribers |-> f.subscribers,
              io |-> f.io,
              lines_total |-> d.lines_total + 1,
              log |-> Append(d.log,
                             [line |-> complete_line,
                              before |-> d.subscribers,
                              healthy |-> {c \in Range(d.subscribers) :
                                             Healthy(d.io.peer[c], complete_line)},
                              dead |-> f.dead,
                              ret |-> f.ret,
                              after |-> f.subscribers,
                              got |-> f.io.received])]

\* main: while b"\n" in stdin_buf: split, fan_out, lines_total += 1.
\* d = [buf, subscribers, io, lines_total, log]
RECURSIVE DrainLines(_)
DrainLines(d) ==
    IF ~HasNL(d.buf) THEN d
    ELSE LET line == SplitNL(d.buf)[1]
             complete_line == Append(line, NL)
             f == fan_out(complete_line, d.subscribers, d.io)
         IN  DrainLines([buf |-> SplitNL(d.buf)[2],
                         subscribers |-> f.subscribers,
                         io |-> f.io,
                         lines_total |-> d.lines_total + 1,
                         log |-> Append(d.log,
                                        [line |-> complete_line,
                                         before |-> d.subscribers,
                                         healthy |-> {c \in Range(d.subscribers) :
                                                        Healthy(d.io.peer[c], complete_line)},
                                         dead |-> f.dead,
                                         ret |-> f.ret,
                                         after |-> f.subscribers,
                                         got |-> f.io.received])])

\* main, up to the event loop: the listener is bound and listening
InitFanout ==
    /\ pc = "fanout"
    /\ IdleQuery
    /\ IdleServer
    /\ IdleInstall
    /\ stdin_closed = FALSE
    /\ stdin_buf = << >>
    /\ lines_total = 0
    /\ subscribers = << >>
    /\ backlog = << >>
    /\ sub_io = [peer |-> [c \in 1..MaxClients |-> NoPeer],
                 received |-> [c \in 1..MaxClients |-> << >>],
                 closed |-> {}]
    /\ listener_open = TRUE
    /\ socket_file = TRUE
    /\ exit_status = NotExited
    /\ shutdown_msg = ""
    /\ stdin_read = << >>
    /\ fan_log = << >>
    /\ accepted_at = << >>

\* the upstream process has closed the pipe (or exited) and the daemon has read
\* all it wrote: the next read gives nothing
UpstreamClose ==
    /\ pc = "fanout"
    /\ ~stdin_closed
    /\ stdin_closed' = TRUE
    /\ UNCHANGED <<pc, notFanVars, stdin_buf, lines_total, subscribers,
                   backlog, sub_io, listener_open, socket_file, exit_status,
                   shutdown_msg, stdin_read, fan_log, accepted_at>>

\* the next client connects to the socket path and waits in the listen queue
Connect(c) ==
    /\ pc = "fanout"
    /\ listener_open
    /\ sub_io.peer[c].st = "none"
    /\ \A b \in 1..(c - 1) : sub_io.peer[b].st # "none"
    /\ sub_io' = [sub_io EXCEPT !.peer[c].st = "reading"]
    /\ backlog' = Append(backlog, c)
    /\ UNCHANGED <<pc, notFanVars, stdin_closed, stdin_buf, lines_total,
                   subscribers, listener_open, socket_file, exit_status,
                   shutdown_msg, stdin_read, fan_log, accepted_at>>

\* a client stops reading with room for one more byte in its socket buffer
Stall(c) ==
    /\ pc = "fanout"
    /\ sub_io.peer[c].st = "reading"
    /\ sub_io' = [sub_io EXCEPT !.peer[c] = [st |-> "slow", room |-> 1]]
    /\ UNCHANGED <<pc, notFanVars, stdin_closed, stdin_buf, lines_total,
                   subscribers, backlog, listener_open, socket_file, exit_status,
                   shutdown_msg, stdin_read, fan_log, accepted_at>>

\* a client closes its end
Disconnect(c) ==
    /\ pc = "fanout"
    /\ sub_io.peer[c].st \in {"reading", "slow"}
    /\ sub_io' = [sub_io EXCEPT !.peer[c] = [st |-> "gone", room |-> 0]]
    /\ UNCHANGED <<pc, notFanVars, stdin_closed, stdin_buf, lines_total,
                   subscribers, backlog, listener_open, socket_file, exit_status,
                   shutdown_msg, stdin_read, fan_log, accepted_at>>

\* the chunks a read can give: what the upstream wrote since the last read,
\* whether or not that ends with a line
Chunks(n) == UNION {[1..k -> StdinBytes] : k \in 1..n}

\* key.data == "stdin", a chunk that is not empty: every complete line of the
\* buffer is fanned out
ReadStdin(chunk) ==
    /\ pc = "fanout"
    /\ ~stdin_closed
    /\ LET d == DrainLines([buf |-> stdin_buf \o chunk,
                            subscribers |-> subscribers,
                            io |-> sub_io,
                            lines_total |-> lines_total,
                            log |-> fan_log])
       IN  /\ stdin_read' = stdin_read \o chunk
           /\ stdin_buf' = d.buf
           /\ subscribers' = d.subscribers
           /\ sub_io' = d.io
           /\ lines_total' = d.lines_total
           /\ fan_log' = d.log
    /\ UNCHANGED <<pc, notFanVars, stdin_closed, backlog, listener_open, socket_file,
                   exit_status, shutdown_msg, accepted_at>>

\* a plausible slip: the loop is left without the finally clause
Shutdown_no_cleanup(msg) ==
    /\ pc' = "exited"
    /\ shutdown_msg' = msg
    /\ exit_status' = 0
    /\ UNCHANGED <<notFanVars, stdin_closed, stdin_buf, lines_total, subscribers, backlog,
                   sub_io, listener_open, socket_file, stdin_read, fan_log, accepted_at>>

\* the loop is left with msg on stderr; the finally clause of main: every
\* subscriber and the listener are closed, the socket file is removed, and main
\* returns
Shutdown(msg) ==
    /\ pc' = "exited"
    /\ shutdown_msg' = msg
    /\ sub_io' = [sub_io EXCEPT !.closed = @ \cup Range(subscribers)]
    /\ listener_open' = FALSE
    /\ socket_file' = FALSE
    /\ exit_status' = 0
    /\ UNCHANGED <<notFanVars, stdin_closed, stdin_buf, lines_total,
                   subscribers, backlog, stdin_read, fan_log, accepted_at>>

\* key.data == "stdin", os.read gives b"": EOF, return
ReadEOF ==
    /\ pc = "fanout"
    /\ stdin_closed
    /\ Shutdown("stdin EOF")

\* key.data == "listener": accept, setblocking(False), subscribers.append(client)
Accept ==
    /\ pc = "fanout"
    /\ backlog # << >>
    /\ subscribers' = Append(subscribers, Head(backlog))
    /\ backlog' = Tail(backlog)
    /\ accepted_at' = (Head(backlog) :> lines_total) @@ accepted_at
    /\ UNCHANGED <<pc, notFanVars, stdin_closed, stdin_buf, lines_total,
                   sub_io, listener_open, socket_file, exit_status, shutdown_msg,
                   stdin_read, fan_log>>

\* Ctrl+C: except KeyboardInterrupt, then the finally clause
Interrupt ==
    /\ pc = "fanout"
    /\ Shutdown("Interrupted")

NextFanout ==
    \/ UpstreamClose
    \/ \E c \in 1..MaxClients : Connect(c)
    \/ \E c \in 1..MaxClients : Stall(c)
    \/ \E c \in 1..MaxClients : Disconnect(c)
    \/ \E chunk \in Chunks(MaxBytes - Len(stdin_read)) : ReadStdin(chunk)
    \/ ReadEOF
    \/ Accept
    \/ Interrupt

SpecFanout == InitFanout /\ [][NextFanout]_vars

\* the event loop serves stdin whenever it is readable
SpecFanoutFair == SpecFanout /\ WF_vars(ReadEOF)

\* ------------------------------------------------------------- the observatory servers
\* tcp-observatory/server.py ("tcp"), unix-socket-observatory/server.py ("unix")
\* and unix-socket-observatory/server_selectors.py ("selectors").
\* A request body is [kind, val]: "empty"; "object", a JSON object, val the dict;
\* "array", valid JSON that is no object, val the list; "text", valid UTF-8 that
\* is no JSON, val the text; "bytes", bytes that are no UTF-8.

\* body.decode("utf-8", errors="replace")
DecodeReplace(body) ==
    IF body.kind = "bytes" THEN [kind |-> "text", val |-> "<U+FFFD>"] ELSE body

\* json.loads(body): the value, or the exception raised. Bytes are decoded
\* first, so bytes that are no UTF-8 give UnicodeDecodeError, which is not a
\* JSONDecodeError.
JsonLoads(body) ==
    IF body.kind = "object" THEN [raised |-> "", mapping |-> TRUE, val |-> body.val]
    ELSE IF body.kind = "array" THEN [raised |-> "", mapping |-> FALSE, val |-> body.val]
    ELSE IF body.kind = "bytes"
         THEN [raised |-> "UnicodeDecodeError", mapping |-> FALSE, val |-> << >>]
    ELSE [raised |-> "JSONDecodeError", mapping |-> FALSE, val |-> << >>]

\* do_POST: payload = json.loads(body) if body else {}, except JSONDecodeError:
\* payload = {"_raw": body.decode("utf-8", errors="replace")}
ParsePayload(body) ==
    IF body.kind = "empty" THEN [raised |-> "", mapping |-> TRUE, val |-> << >>]
    ELSE LET loaded == JsonLoads(body)
         IN  IF loaded.raised = "JSONDecodeError"
             THEN [raised |-> "", mapping |-> TRUE,
                   val |-> ("_raw" :> DecodeReplace(body).val)]
             ELSE loaded

\* result.update(payload), {**result, **payload}: the keys of payload win
DictUpdate(result, payload) == payload @@ result

\* tcp-observatory/server.py, enrich_payload(payload, event, client): the
\* enriched event, or the exception {**payload} raises for what is no mapping
enrich_payload_tcp(parsed, event, client, now) ==
    IF ~parsed.mapping THEN [raised |-> "TypeError", val |-> << >>]
    ELSE [raised |-> "",
          val |-> DictUpdate([_ts |-> now, _event |-> event, _client |-> client],
                             parsed.val)]

\* unix-socket-observatory, enrich_payload(payload, event, peer_creds): the
\* enriched event, or the exception result.update(payload) raises for what is
\* neither a mapping nor an empty list
enrich_payload(parsed, event, peer_creds, now) ==
    LET result == IF peer_creds = None
                  THEN [_ts |-> now, _event |-> event]
                  ELSE [_ts |-> now, _event |-> event, _peer_pid |-> peer_creds[1],
                        _peer_uid |-> peer_creds[2], _peer_gid |-> peer_creds[3]]
    IN  IF parsed.mapping THEN [raised |-> "", val |-> DictUpdate(result, parsed.val)]
        ELSE IF parsed.val = << >> THEN [raised |-> "", val |-> result]
        ELSE [raised |-> "TypeError", val |-> << >>]

\* format_event / output_event in the default mode: the JSON text of the event
\* and its newline, one line
format_event(data) == <<[raw |-> "json", obj |-> data]>>

\* a plausible slip: with an output socket stdout is written whatever --tee says
RouteLine_always_stdout(output_socket, tee) ==
    [stdout |-> TRUE, clients |-> output_socket]

\* OutputManager.write / write_output: where a line goes
RouteLine(output_socket, tee) ==
    IF output_socket /\ ~tee THEN [stdout |-> FALSE, clients |-> TRUE]
    ELSE IF output_socket /\ tee THEN [stdout |-> TRUE, clients |-> TRUE]
    ELSE [stdout |-> TRUE, clients |-> FALSE]

\* OutputManager._write_to_clients(line) / _write_to_clients(line): the list and
\* the sockets afterwards
_write_to_clients(line, clients, io) ==
    LET sent == FanOutSend(line, clients, 1, << >>, io)
    IN  FanOutDrop(clients, sent.dead, sent.io)

\* query.get("event", ["Unknown"])[0]
EventOf(query) == IF "event" \in DOMAIN query THEN query["event"] ELSE "Unknown"

\* do_POST / handle_input_connection up to the output: the event to emit, or
\* the exception that ends the handler
BuildEvent(variant, req, peer, now) ==
    LET event == EventOf(req.query)
        body == IF variant = "selectors" THEN DecodeReplace(req.body) ELSE req.body
        parsed == ParsePayload(body)
    IN  IF parsed.raised # "" THEN [raised |-> parsed.raised, val |-> << >>]
        ELSE IF variant = "tcp" THEN enrich_payload_tcp(parsed, event, peer, now)
        ELSE enrich_payload(parsed, event, peer, now)

NoResponse == [status |-> 0, body |-> ""]

\* the requests the hooks (and others) send; the session tracker reads the
\* emitted events
ServerPosts ==
    <<[query |-> ("event" :> "PreToolUse"),
       body |-> [kind |-> "object", val |-> [session_id |-> "s1", tool_name |-> "Bash"]]],
      [query |-> << >>,
       body |-> [kind |-> "empty", val |-> << >>]],
      [query |-> ("event" :> "Stop"),
       body |-> [kind |-> "object", val |-> [session_id |-> "s1", _event |-> "SessionEnd"]]],
      [query |-> ("event" :> "Stop"),
       body |-> [kind |-> "array", val |-> <<1>>]],
      [query |-> ("event" :> "Stop"),
       body |-> [kind |-> "text", val |-> "not json"]],
      [query |-> ("event" :> "Stop"),
       body |-> [kind |-> "bytes", val |-> << >>]]>>

\* the ways a server is started: server.py --port, server.py or
\* server_selectors.py with or without --output-socket and --tee (--tee alone is
\* refused), on a platform that gives peer credentials or not
ServerConfs ==
    {[variant |-> "tcp", output_socket |-> FALSE, tee |-> FALSE, peercred |-> FALSE]}
    \cup {c \in [variant : {"unix", "selectors"}, output_socket : BOOLEAN,
                 tee : BOOLEAN, peercred : BOOLEAN] : c.tee => c.output_socket}

InitServer ==
    /\ pc = "serving"
    /\ IdleQuery
    /\ IdleFanout
    /\ IdleInstall
    /\ srv_conf \in ServerConfs
    /\ srv_stdout = << >>
    /\ _clients = << >>
    /\ out_backlog = << >>
    /\ out_io = [peer |-> [c \in 1..MaxClients |-> NoPeer],
                 received |-> [c \in 1..MaxClients |-> << >>],
                 closed |-> {}]
    /\ srv_log = << >>

\* client_address[0] of a TCP request, get_peer_creds(sock) of a Unix one
PeerOf(conf) ==
    IF conf.variant = "tcp" THEN "127.0.0.1"
    ELSE IF conf.peercred THEN <<7, 1000, 1000>>
    ELSE None

\* what a request left behind
LogEntry(method, req, now, raised, response, line, clients, stdout, io) ==
    [method |-> method, req |-> req, now |-> now, raised |-> raised,
     response |-> response, line |-> line,
     clients_before |-> _clients,
     healthy |-> {c \in Range(_clients) : out_io.peer[c].st = "reading"},
     clients_after |-> clients,
     stdout_before |-> srv_stdout, stdout_after |-> stdout,
     got_before |-> out_io.received, got_after |-> io.received]

\* server_selectors.py: an exception other than OSError leaves main through its
\* finally clause; every reader and the output listener are closed
SelectorsDies ==
    /\ pc' = "crashed"
    /\ out_io' = [out_io EXCEPT !.closed = @ \cup Range(_clients)]
    /\ UNCHANGED <<srv_stdout, _clients, out_backlog>>

\* do_POST (handle_input_connection for a POST): the n-th request of ServerPosts
\* arrives, one second after the request before it
HandlePost(n) ==
    /\ pc = "serving"
    /\ Len(srv_log) < MaxRequests
    /\ LET req == ServerPosts[n]
           now == <<Len(srv_log) + 1, 0>>
           built == BuildEvent(srv_conf.variant, req, PeerOf(srv_conf), now)
           line == format_event(built.val)
           route == RouteLine(srv_conf.output_socket, srv_conf.tee)
           written == IF route.clients THEN _write_to_clients(line, _clients, out_io)
                      ELSE [subscribers |-> _clients, io |-> out_io]
           stdout == IF route.stdout THEN srv_stdout \o line ELSE srv_stdout
       IN  IF built.raised # ""
           THEN /\ srv_log' = Append(srv_log,
                                     LogEntry("POST", req, now, built.raised, NoResponse,
                                              << >>, _clients, srv_stdout, out_io))
                /\ IF srv_conf.variant = "selectors"
                   THEN SelectorsDies
                   ELSE UNCHANGED <<pc, srv_stdout, _clients, out_backlog, out_io>>
           ELSE /\ srv_log' = Append(srv_log,
                                     LogEntry("POST", req, now, "",
                                              [status |-> 200, body |-> ""], line,
                                              written.subscribers, stdout, written.io))
                /\ srv_stdout' = stdout
                /\ _clients' = written.subscribers
                /\ out_io' = written.io
                /\ UNCHANGED <<pc, out_backlog>>
    /\ UNCHANGED <<notSrvVars, srv_conf>>

\* do_GET (handle_input_connection for a GET): 200 and a status for /health,
\* 404 otherwise; nothing is emitted
HandleGet(path) ==
    /\ pc = "serving"
    /\ Len(srv_log) < MaxRequests
    /\ srv_log' = Append(srv_log,
                         LogEntry("GET", [query |-> << >>, path |-> path],
                                  <<Len(srv_log) + 1, 0>>, "",
                                  IF path = "/health"
                                  THEN [status |-> 200, body |-> "{\"status\": \"ok\"}"]
                                  ELSE [status |-> 404, body |-> ""],
                                  << >>, _clients, srv_stdout, out_io))
    /\ UNCHANGED <<pc, notSrvVars, srv_conf, srv_stdout, _clients, out_backlog, out_io>>

\* a reader connects to the output socket and waits in the listen queue
ReaderConnects(c) ==
    /\ pc = "serving"
    /\ srv_conf.output_socket
    /\ out_io.peer[c].st = "none"
    /\ \A b \in 1..(c - 1) : out_io.peer[b].st # "none"
    /\ out_io' = [out_io EXCEPT !.peer[c].st = "reading"]
    /\ out_backlog' = Append(out_backlog, c)
    /\ UNCHANGED <<pc, notSrvVars, srv_conf, srv_stdout, _clients, srv_log>>

\* a reader closes its end
ReaderLeaves(c) ==
    /\ pc = "serving"
    /\ out_io.peer[c].st = "reading"
    /\ out_io' = [out_io EXCEPT !.peer[c] = [st |-> "gone", room |-> 0]]
    /\ UNCHANGED <<pc, notSrvVars, srv_conf, srv_stdout, _clients, out_backlog, srv_log>>

\* OutputManager.accept_pending from service_actions / key.data == "output_listener"
accept_pending ==
    /\ pc = "serving"
    /\ out_backlog # << >>
    /\ _clients' = Append(_clients, Head(out_backlog))
    /\ out_backlog' = Tail(out_backlog)
    /\ UNCHANGED <<pc, notSrvVars, srv_conf, srv_stdout, out_io, srv_log>>

\* the requests alone, whatever their body, with no reader on the output socket
NextServer ==
    \/ \E n \in 1..Len(ServerPosts) : HandlePost(n)
    \/ \E path \in {"/health", "/"} : HandleGet(path)

SpecServer == InitServer /\ [][NextServer]_vars

\* well-formed hook requests while readers of the output socket come and go
NextOutput ==
    \/ \E n \in 1..2 : HandlePost(n)
    \/ \E c \in 1..MaxClients : ReaderConnects(c)
    \/ \E c \in 1..MaxClients : ReaderLeaves(c)
    \/ accept_pending

SpecOutput == InitServer /\ [][NextOutput]_vars

\* ------------------------------------------------------------- tcp-observatory/install-hooks.py
\* A settings file is a dict; a command is the sequence of the pieces it is put
\* together from, so that the URL of the observatory can be looked for in it.
DEFAULT_BIND == "127.0.0.1"

HOOK_EVENTS ==
    <<"SessionStart", "UserPromptSubmit", "PreToolUse", "PostToolUse",
      "PostToolUseFailure", "PermissionRequest", "Notification", "Stop",
      "SubagentStop", "SubagentStart", "PreCompact", "SessionEnd">>

MATCHER_EVENTS ==
    [PreToolUse |-> "*", PostToolUse |-> "*", PostToolUseFailure |-> "*",
     PermissionRequest |-> "*", Notification |-> "", PreCompact |-> "",
     SubagentStart |-> "*", SubagentStop |-> "*", SessionStart |-> "",
     SessionEnd |-> ""]

\* generate_curl_command(port, bind, event)
generate_curl_command(port, bind, event) ==
    <<"curl -s --connect-timeout 1 --max-time 2 -X POST -H 'Content-Type: application/json' -d @- '",
      "http://", bind, ":", port, "/hook", "?event=", event, "' || true">>

\* generate_hook_config(port, bind)
generate_hook_config(port, bind) ==
    [hooks |->
        [event \in Range(HOOK_EVENTS) |->
            LET hook_entry == [hooks |-> <<[type |-> "command",
                                            command |-> generate_curl_command(port, bind, event)]>>]
            IN  <<IF event \in DOMAIN MATCHER_EVENTS
                  THEN ("matcher" :> MATCHER_EVENTS[event]) @@ hook_entry
                  ELSE hook_entry>>]]

\* load_settings(path)
load_settings(file) == IF file.exists THEN file.content ELSE << >>

\* merge_settings(existing, new_hooks, replace)
merge_settings(existing, new_hooks, replace) ==
    IF replace \/ "hooks" \notin DOMAIN existing
    THEN ("hooks" :> new_hooks["hooks"]) @@ existing
    ELSE [existing EXCEPT !["hooks"] = new_hooks["hooks"] @@ existing["hooks"]]

\* f"http://{bind}:{port}/hook"
ObservatoryMarker(port, bind) == <<"http://", bind, ":", port, "/hook">>

\* marker in command
IsInfix(marker, command) ==
    \E i \in 0..(Len(command) - Len(marker)) :
        SubSeq(command, i + 1, i + Len(marker)) = marker

\* a plausible slip: an entry with an observatory hook is dropped whole
FilterEntry_drop_whole(config, marker) ==
    LET hooks_list == Get(config, "hooks", << >>)
    IN  IF \E i \in 1..Len(hooks_list) : IsInfix(marker, Get(hooks_list[i], "command", << >>))
        THEN << >>
        ELSE hooks_list

\* remove_observatory_hooks: filtered_hooks of one config
FilterEntry(config, marker) ==
    SelectSeq(Get(config, "hooks", << >>),
              LAMBDA h : ~IsInfix(marker, Get(h, "command", << >>)))

\* remove_observatory_hooks: filtered of one event
RECURSIVE FilterConfigs(_, _)
FilterConfigs(configs, marker) ==
    IF configs = << >> THEN << >>
    ELSE LET config == Head(configs)
             filtered_hooks == FilterEntry(config, marker)
         IN  (IF filtered_hooks # << >>
              THEN <<("hooks" :> filtered_hooks) @@ config>>
              ELSE << >>) \o FilterConfigs(Tail(configs), marker)

\* remove_observatory_hooks(settings, port, bind)
remove_observatory_hooks(settings, port, bind) ==
    IF "hooks" \notin DOMAIN settings THEN settings
    ELSE LET marker == ObservatoryMarker(port, bind)
             kept == {event \in DOMAIN settings["hooks"] :
                        FilterConfigs(settings["hooks"][event], marker) # << >>}
         IN  IF kept = {}
             THEN [k \in DOMAIN settings \ {"hooks"} |-> settings[k]]
             ELSE [settings EXCEPT !["hooks"] =
                      [event \in kept |-> FilterConfigs(settings["hooks"][event], marker)]]

\* the ports the observatory is installed for
InstallPorts == {"23518", "9999"}

UserHook(text) == [type |-> "command", command |-> <<text>>]

ObservatoryHook(port, event) ==
    [type |-> "command", command |-> generate_curl_command(port, DEFAULT_BIND, event)]

\* the settings files install-hooks.py finds: none; one without hooks; one with
\* a hook of the user on an event the observatory hooks too and one on an event
\* it does not; one where an entry holds a hook of the user after a hook of the
\* observatory and another entry has a matcher only; one with an empty hooks dict
InstallSettings ==
    <<NoFile,
      [exists |-> TRUE, content |-> [model |-> "opus"]],
      [exists |-> TRUE,
       content |-> [model |-> "opus",
                    hooks |-> [PreToolUse |-> <<[matcher |-> "Bash",
                                                 hooks |-> <<UserHook("echo hi")>>]>>,
                               Setup |-> <<[hooks |-> <<UserHook("echo setup")>>]>>]]],
      [exists |-> TRUE,
       content |-> [hooks |-> [PreToolUse |->
                                 <<[matcher |-> "Bash",
                                    hooks |-> <<ObservatoryHook("9999", "PreToolUse"),
                                                UserHook("echo hi"),
                                                UserHook("echo again")>>],
                                   [matcher |-> "Edit"]>>,
                               Stop |-> <<[hooks |-> <<ObservatoryHook("9999", "Stop")>>]>>]]],
      [exists |-> TRUE, content |-> [model |-> "opus", hooks |-> << >>]]>>

InitInstall ==
    /\ pc = "install"
    /\ IdleQuery
    /\ IdleFanout
    /\ IdleServer
    /\ \E i \in 1..Len(InstallSettings) : settings_file = InstallSettings[i]
    /\ settings_backup = NoFile
    /\ inst_log = << >>

\* main from "Create backup if file exists" on: the backup, then the new file
WriteSettings(action, port, replace, existing, new_settings) ==
    /\ settings_backup' = IF settings_file.exists THEN settings_file ELSE settings_backup
    /\ settings_file' = [exists |-> TRUE, content |-> new_settings]
    /\ inst_log' = Append(inst_log, [action |-> action, port |-> port, replace |-> replace,
                                     before |-> existing, after |-> new_settings])
    /\ UNCHANGED <<pc, notInstVars>>

\* main without --uninstall: the hooks are generated and merged; replace is
\* what the user chose when hooks were found (never with --yes)
Install(port, replace) ==
    /\ pc = "install"
    /\ Len(inst_log) < MaxRuns
    /\ LET existing == load_settings(settings_file)
           new_hooks == generate_hook_config(port, DEFAULT_BIND)
       IN  /\ replace => Get(existing, "hooks", << >>) # << >>
           /\ WriteSettings("install", port, replace, existing,
                            merge_settings(existing, new_hooks, replace))

\* main with --uninstall
Uninstall(port) ==
    /\ pc = "install"
    /\ Len(inst_log) < MaxRuns
    /\ LET existing == load_settings(settings_file)
       IN  WriteSettings("uninstall", port, FALSE, existing,
                         remove_observatory_hooks(existing, port, DEFAULT_BIND))

NextInstall ==
    \/ \E port \in InstallPorts, replace \in BOOLEAN : Install(port, replace)
    \/ \E port \in InstallPorts : Uninstall(port)

SpecInstall == InitInstall /\ [][NextInstall]_vars

\* ------------------------------------------------------------- what the claims speak of
Max(S) == CHOOSE x \in S : \A y \in S : y <= x

\* path is cand or lies below it, component by component
IsDescendant(path, cand) == IsPrefix(PathParts(cand), PathParts(path))

\* the condition of a liveness layer for a record against a set of candidate cwds
LayerHolds(tag, rec, cwds) ==
    IF tag = "exact:start" THEN rec.start_cwd # EmptyStr /\ rec.start_cwd \in cwds
    ELSE IF tag = "exact:last" THEN rec.cwd # EmptyStr /\ rec.cwd \in cwds
    ELSE IF tag = "ancestor:start"
         THEN rec.start_cwd # EmptyStr /\ \E c \in cwds : IsDescendant(rec.start_cwd, c)
    ELSE /\ rec.cwd # EmptyStr
         /\ rec.cwd # rec.start_cwd
         /\ \E c \in cwds : IsDescendant(rec.cwd, c)

LayerOrder == <<"exact:start", "exact:last", "ancestor:start", "ancestor:last">>

\* the tag of the first layer that holds, "" when none does
FirstLayer(rec, cwds) ==
    LET hits == {i \in 1..4 : LayerHolds(LayerOrder[i], rec, cwds)}
    IN  IF hits = {} THEN "" ELSE LayerOrder[Min(hits)]

\* the derivation table of the state, by kind of last event
DerivationTable(ev) ==
    IF ev = None THEN "RUN:?"
    ELSE LET k == Get(ev, "_event", "")
             nt == Get(ev, "notification_type", "")
         IN  CASE k = "Stop" -> "FRESH"
               [] k = "PermissionRequest" -> "PERMIT"
               [] k = "Notification" /\ nt = "idle_prompt" -> "IDLE"
               [] k = "Notification" /\ nt = "permission_prompt" -> "PERMIT"
               [] k = "Notification" /\ nt = "elicitation_dialog" -> "QUESTION"
               [] k = "Notification" /\ nt \notin WAITING_NOTIFICATION_TYPES -> "IDLE"
               [] k = "PreToolUse" /\ "tool_name" \in DOMAIN ev -> "RUN:" \o ev.tool_name
               [] k = "PreToolUse" /\ "tool_name" \notin DOMAIN ev -> "RUN:?"
               [] k = "UserPromptSubmit" -> "RUN:think"
               [] k = "SubagentStart" -> "RUN:agent"
               [] k \in {"PostToolUse", "PostToolUseFailure", "SubagentStop"} -> "RUN:done"
               [] k = "SessionStart" -> "RUN:start"
               [] OTHER -> "RUN:?"

\* the cwd of a pid of a pid -> cwd map
CwdOfPid(map, pid) == map[CHOOSE i \in 1..Len(map) : map[i][1] = pid][2]

\* the sessions of the pass that are not terminated
NonTerminated == {sid \in DOMAIN sessions : ~sessions[sid].terminated}

\* the pids of the snapshot that some layer could match a record with
Matchable(rec) ==
    {pid_cwd_map[i][1] : i \in {j \in 1..Len(pid_cwd_map) :
        \E tag \in Range(LayerOrder) : LayerHolds(tag, rec, {pid_cwd_map[j][2]})}}

\* the session's last event carries a timestamp that parses
HasTs(sid) == sessions[sid].last_event # None /\ Len(LastTs(sessions[sid])) \in {1, 2}

TsOf(sid) == _ts_sortval(LastTs(sessions[sid]))

\* the output records that are not DEAD
AliveRecords == {i \in 1..Len(records) : records[i].state # "DEAD"}

\* the events consumed so far that belong to a session, oldest first
EventsOf(sid) ==
    LET own == SelectSeq(hist, LAMBDA l : l.raw = "json" /\ Get(l.obj, "session_id", "") = sid)
    IN  [i \in 1..Len(own) |-> own[i].obj]

\* SessionEnd, or a tracked kind (a Notification only with one of the three types)
Qualifies(ev) ==
    LET k == Get(ev, "_event", "")
    IN  \/ k = "SessionEnd"
        \/ k \in {"SessionStart", "Stop", "PermissionRequest", "PreToolUse", "PostToolUse",
                  "PostToolUseFailure", "UserPromptSubmit", "SubagentStart", "SubagentStop"}
        \/ /\ k = "Notification"
           /\ Get(ev, "notification_type", "") \in
                 {"permission_prompt", "idle_prompt", "elicitation_dialog"}

\* the most recent event of a session that qualifies, None when there is none
LastQualifying(sid) ==
    LET evs == EventsOf(sid)
        idx == {i \in 1..Len(evs) : Qualifies(evs[i])}
    IN  IF idx = {} THEN None ELSE evs[Max(idx)]

\* the places, among a session's events, of the SessionStart events with a cwd
SessionStartsWithCwd(sid) ==
    LET evs == EventsOf(sid)
    IN  {i \in 1..Len(evs) : Get(evs[i], "_event", "") = "SessionStart"
                             /\ Get(evs[i], "cwd", EmptyStr) # EmptyStr}

\* ------------------------------------------------------------- claims

\* C1: in a pass no pid is claimed (matched and added to claimed_pids) by more
\* than one session.
C1_Injective ==
    \A a, b \in DOMAIN resolved :
        (a # b /\ resolved[a].claimed /\ resolved[b].claimed)
            => resolved[a].pid # resolved[b].pid

\* C1 witness: the pass is over and two sessions of one working directory have
\* each claimed a process of their own.
C1_Witness ==
    /\ pc = "done"
    /\ \E a, b \in DOMAIN resolved :
          /\ a # b
          /\ resolved[a].claimed
          /\ resolved[b].claimed
          /\ sessions[a].start_cwd = sessions[b].start_cwd

\* C2: the records that are not DEAD are at most as many as the live processes
\* of the snapshot, and each of them stands for a claimed pid of its own.
C2_OneProcessOneAliveSession ==
    (pc \in {"resolve", "done"}) =>
        /\ Cardinality(AliveRecords) <= Len(pid_cwd_map)
        /\ \A i \in AliveRecords :
              LET r == resolved[records[i].session_id]
              IN  /\ r.pid # NoPid
                  /\ r.pid \in claimed_pids
                  /\ \A j \in AliveRecords \ {i} :
                        resolved[records[j].session_id].pid # r.pid

\* C2 witness: one live process, two sessions started in its directory; one
\* record is alive and the other one DEAD.
C2_Witness ==
    /\ pc = "done"
    /\ Len(pid_cwd_map) = 1
    /\ Len(records) = 2
    /\ Cardinality(AliveRecords) = 1
    /\ \A i \in 1..2 : records[i].start_cwd = pid_cwd_map[1][2]

\* C3 as stated: for every record, terminated or not, an empty match method
\* returned by session_state comes with the state DEAD.
C3_OverrideAnyRecord ==
    (fn_ret.fn = "session_state" /\ fn_ret.val[2] = "") => fn_ret.val[1] = "DEAD"

\* C3 amended: for every record that is not terminated, whatever its last
\* event, an empty match method comes with the state DEAD, and no candidate
\* matching gives <<DEAD, "">>; a terminated record gives TERMINATED with the
\* empty method.
C3_Override ==
    fn_ret.fn = "session_state" =>
        /\ (~fn_rec.terminated /\ fn_ret.val[2] = "") => fn_ret.val[1] = "DEAD"
        /\ (~fn_rec.terminated /\ FirstLayer(fn_rec, CwdSet(fn_map)) = "")
              => fn_ret.val = <<"DEAD", "">>
        /\ fn_rec.terminated => fn_ret.val = <<"TERMINATED", "">>

\* C3 witness: last event Notification/idle_prompt, no live process: DEAD.
C3_Witness ==
    /\ fn_ret.fn = "session_state"
    /\ ~fn_rec.terminated
    /\ fn_rec.last_event # None
    /\ Get(fn_rec.last_event, "_event", "") = "Notification"
    /\ Get(fn_rec.last_event, "notification_type", "") = "idle_prompt"
    /\ fn_map = << >>
    /\ fn_ret.val = <<"DEAD", "">>

\* C4 as stated: of two sessions that only one and the same process can match,
\* the one with the later timestamp claims it and has the state of its own last
\* event, the other one is DEAD with the empty method.
C4_RecencyOfAnyTwo ==
    pc = "done" =>
        \A a, b \in NonTerminated :
            (/\ a # b
             /\ HasTs(a) /\ HasTs(b) /\ TsOf(a) > TsOf(b)
             /\ Cardinality(Matchable(sessions[a])) = 1
             /\ Matchable(sessions[a]) = Matchable(sessions[b]))
            => /\ {resolved[a].pid} = Matchable(sessions[a])
               /\ resolved[a].claimed
               /\ resolved[a].state = DerivationTable(sessions[a].last_event)
               /\ resolved[b].state = "DEAD"
               /\ resolved[b].match = ""

\* C4 amended: the same, when no other session that is not terminated and whose
\* timestamp is not earlier than the later one's can be matched by that process.
C4_Recency ==
    pc = "done" =>
        \A a, b \in NonTerminated :
            (/\ a # b
             /\ HasTs(a) /\ HasTs(b) /\ TsOf(a) > TsOf(b)
             /\ Cardinality(Matchable(sessions[a])) = 1
             /\ Matchable(sessions[a]) = Matchable(sessions[b])
             /\ \A c \in NonTerminated \ {a, b} :
                   TsOf(c) >= TsOf(a) => Matchable(sessions[c]) \cap Matchable(sessions[a]) = {})
            => /\ {resolved[a].pid} = Matchable(sessions[a])
               /\ resolved[a].claimed
               /\ resolved[a].state = DerivationTable(sessions[a].last_event)
               /\ resolved[b].state = "DEAD"
               /\ resolved[b].match = ""

\* C4 witness: two sessions started in /p, one process in /p; the session seen
\* first in the log has the later timestamp and is the one alive.
C4_Witness ==
    /\ pc = "done"
    /\ Len(pid_cwd_map) = 1
    /\ Len(sessions_keys) = 2
    /\ NonTerminated = DOMAIN sessions
    /\ \A sid \in DOMAIN sessions : Matchable(sessions[sid]) = {pid_cwd_map[1][1]}
    /\ TsOf(sessions_keys[1]) > TsOf(sessions_keys[2])
    /\ resolved[sessions_keys[1]].claimed
    /\ resolved[sessions_keys[2]].state = "DEAD"

\* C5: a session for which a SessionEnd was ingested is terminated, is given
\* TERMINATED by session_state, is never resolved (so it claims no pid and
\* takes no candidate away: the claimed pids are those of resolved sessions),
\* and has no output record.
C5_TerminatedTakesNoPart ==
    \A sid \in ended :
        /\ sid \in DOMAIN sessions
        /\ sessions[sid].terminated
        /\ \A live \in Enumerations(CwdSet(pid_cwd_map)) :
              session_state(sessions[sid], live) = <<"TERMINATED", "">>
        /\ sid \notin DOMAIN resolved
        /\ claimed_pids \subseteq {resolved[s].pid : s \in DOMAIN resolved \ ended}
        /\ \A i \in 1..Len(records) : records[i].session_id # sid

\* C5 witness: the pass is over; an ended session is the most recent one and
\* sits in the directory of the only live process, which an older session has
\* claimed.
C5_Witness ==
    /\ pc = "done"
    /\ Len(pid_cwd_map) = 1
    /\ \E sid \in ended, other \in DOMAIN resolved :
          /\ sessions[sid].start_cwd = pid_cwd_map[1][2]
          /\ TsOf(sid) > TsOf(other)
          /\ resolved[other].claimed

\* C6 as stated: _liveness_check returns the tag of the first layer, in the
\* order exact:start, exact:last, ancestor:start, ancestor:last, whose
\* condition holds, for every enumeration order of the candidate set (so never
\* ancestor:last when start_cwd lies below a candidate).
C6_FirstLayerWins ==
    fn_ret.fn = "_liveness_check" => fn_ret.val = FirstLayer(fn_rec, CwdSet(fn_map))

\* C7: an ancestor layer matches only a candidate whose components are a prefix
\* of the components of the session's directory: the tag ancestor:start or
\* ancestor:last of _liveness_check has such a candidate, and the pid returned
\* by match_session_to_claude_pid has a cwd equal to start_cwd or cwd, or one
\* that contains start_cwd or cwd.
C7_AncestorIsStructural ==
    /\ fn_ret.fn = "_liveness_check" =>
          /\ fn_ret.val = "ancestor:start" =>
                \E c \in CwdSet(fn_map) : IsDescendant(fn_rec.start_cwd, c)
          /\ fn_ret.val = "ancestor:last" =>
                \E c \in CwdSet(fn_map) : IsDescendant(fn_rec.cwd, c)
    /\ (fn_ret.fn = "match_session_to_claude_pid" /\ fn_ret.val # NoPid) =>
          LET c == CwdOfPid(fn_map, fn_ret.val)
          IN  \/ c \in {fn_rec.start_cwd, fn_rec.cwd}
              \/ IsDescendant(fn_rec.start_cwd, c)
              \/ IsDescendant(fn_rec.cwd, c)

\* C7 witness: the session sits in /p2 and the only candidate in /p, a string
\* prefix that is no ancestor; _liveness_check returned no match.
C7_Witness ==
    /\ fn_ret.fn = "_liveness_check"
    /\ fn_rec.start_cwd = P_p2
    /\ fn_rec.cwd = P_p2
    /\ CwdSet(fn_map) = {P_p}
    /\ fn_ret.val = ""

\* C8: for a record that is not terminated and has a match method, session_state
\* returns the state of the derivation table for its last event; SessionStart
\* in /p then Stop, with a live process in /p, gives FRESH with exact:start.
C8_DerivationTable ==
    fn_ret.fn = "session_state" =>
        /\ (~fn_rec.terminated /\ fn_ret.val[2] # "")
              => fn_ret.val[1] = DerivationTable(fn_rec.last_event)
        /\ (/\ ~fn_rec.terminated
            /\ fn_rec.start_cwd = P_p
            /\ P_p \in CwdSet(fn_map)
            /\ fn_rec.last_event # None
            /\ Get(fn_rec.last_event, "_event", "") = "Stop")
              => fn_ret.val = <<"FRESH", "exact:start">>

\* C8 witness: the record started in /p whose last event is Stop, against a
\* live process in /p, was given FRESH with exact:start.
C8_Witness ==
    /\ fn_ret.fn = "session_state"
    /\ ~fn_rec.terminated
    /\ fn_rec.start_cwd = P_p
    /\ fn_rec.last_event # None
    /\ Get(fn_rec.last_event, "_event", "") = "Stop"
    /\ P_p \in CwdSet(fn_map)
    /\ fn_ret.val = <<"FRESH", "exact:start">>

\* C9: a session's last_event is the most recent of its events that is a
\* SessionEnd or tracked, and terminated tells whether a SessionEnd is among
\* them: the other events change neither.
C9_LastEventIsLastTracked ==
    \A sid \in DOMAIN sessions :
        /\ sessions[sid].last_event = LastQualifying(sid)
        /\ sessions[sid].last_event_type =
              (IF LastQualifying(sid) = None THEN "" ELSE LastQualifying(sid)._event)
        /\ sessions[sid].terminated =
              (\E i \in 1..Len(EventsOf(sid)) : EventsOf(sid)[i]._event = "SessionEnd")

\* C9 witness: a Stop of s1 in /p was followed by a Notification of a type that
\* is not tracked, in /q: last_event is still the Stop, cwd has moved to /q.
C9_Witness ==
    /\ "s1" \in DOMAIN sessions
    /\ Len(EventsOf("s1")) = 2
    /\ EventsOf("s1")[1]._event = "Stop"
    /\ EventsOf("s1")[2]._event = "Notification"
    /\ Get(EventsOf("s1")[2], "notification_type", "") = "auth_success"
    /\ sessions["s1"].last_event = EventsOf("s1")[1]
    /\ Get(EventsOf("s1")[1], "cwd", EmptyStr) = P_p
    /\ sessions["s1"].cwd = P_q

\* C10 as stated: start_cwd is write-once; after the first SessionStart of a
\* session that carries a cwd it is that cwd for good.
C10_StartCwdWriteOnce ==
    \A sid \in DOMAIN sessions :
        SessionStartsWithCwd(sid) # {} =>
            sessions[sid].start_cwd = EventsOf(sid)[Min(SessionStartsWithCwd(sid))].cwd

\* C10 amended: once set from a SessionStart, start_cwd is changed by no later
\* event other than a SessionStart that carries a non-empty cwd, which replaces
\* it: it is the cwd of the most recent such SessionStart.
C10_StartCwdFromLastSessionStart ==
    \A sid \in DOMAIN sessions :
        SessionStartsWithCwd(sid) # {} =>
            sessions[sid].start_cwd = EventsOf(sid)[Max(SessionStartsWithCwd(sid))].cwd

\* C10 witness: s1 started in /p, then had a Stop in /q and a SessionEnd in /q:
\* cwd has moved to /q, start_cwd is still /p.
C10_Witness ==
    /\ "s1" \in DOMAIN sessions
    /\ Len(EventsOf("s1")) = 3
    /\ SessionStartsWithCwd("s1") = {1}
    /\ Get(EventsOf("s1")[1], "cwd", EmptyStr) = P_p
    /\ sessions["s1"].cwd = P_q
    /\ sessions["s1"].start_cwd = P_p

\* the cwd of the most recent event of a session that carried one, else empty
LastCwdSeen(sid) ==
    LET evs == EventsOf(sid)
        idx == {i \in 1..Len(evs) : Get(evs[i], "cwd", EmptyStr) # EmptyStr}
    IN  IF idx = {} THEN EmptyStr ELSE evs[Max(idx)].cwd

RECURSIVE Replay(_)
\* the session map after a sequence of lines, from the empty map
Replay(lines) ==
    IF lines = << >> THEN << >>
    ELSE AfterLine(Replay(SubSeq(lines, 1, Len(lines) - 1)), lines[Len(lines)])

\* a line that parses as a JSON object and has a non-empty session_id
WellFormed(line) ==
    /\ line.raw = "json"
    /\ "session_id" \in DOMAIN line.obj
    /\ line.obj.session_id # ""

\* C11 as stated: a session without any SessionStart that carries a cwd has an
\* empty start_cwd, whatever cwd its other events carry.
C11_StartCwdOnlyFromSessionStart ==
    \A sid \in DOMAIN sessions :
        SessionStartsWithCwd(sid) = {} => sessions[sid].start_cwd = EmptyStr

\* C12: a session's cwd is the cwd of its most recent event that carried a
\* non-empty one (empty when there is none); an event of any kind whose cwd is
\* missing or empty leaves it alone.
C12_CwdIsLastNonEmpty ==
    \A sid \in DOMAIN sessions : sessions[sid].cwd = LastCwdSeen(sid)

\* C12 witness: s1 was seen in /p, then came an event without a cwd and an
\* event with an empty cwd: cwd is still /p.
C12_Witness ==
    /\ "s1" \in DOMAIN sessions
    /\ Len(EventsOf("s1")) = 3
    /\ Get(EventsOf("s1")[1], "cwd", EmptyStr) = P_p
    /\ "cwd" \notin DOMAIN EventsOf("s1")[2]
    /\ "cwd" \in DOMAIN EventsOf("s1")[3]
    /\ EventsOf("s1")[3].cwd = EmptyStr
    /\ sessions["s1"].cwd = P_p

\* C13: ingesting a line twice in a row gives the session map that ingesting it
\* once gives: for every line that could come next, and for the log read so far
\* when its last two lines are the same.
C13_IngestIdempotent ==
    /\ \A line \in IngestLines :
          AfterLine(AfterLine(sessions, line), line) = AfterLine(sessions, line)
    /\ (Len(hist) >= 2 /\ hist[Len(hist)] = hist[Len(hist) - 1])
          => sessions = Replay(SubSeq(hist, 1, Len(hist) - 1))

\* C13 witness: after a first event of s1 in /p, the same SessionStart of s1 in
\* /q was read twice in a row.
C13_Witness ==
    /\ Len(hist) = 3
    /\ hist[3] = hist[2]
    /\ hist[1] # hist[2]
    /\ \A i \in 1..3 : WellFormed(hist[i]) /\ hist[i].obj.session_id = "s1"
    /\ Get(hist[1].obj, "cwd", EmptyStr) = P_p
    /\ hist[3].obj._event = "SessionStart"
    /\ Get(hist[3].obj, "cwd", EmptyStr) = P_q
    /\ sessions["s1"].start_cwd = P_q

\* C14: a line that is blank, does not start with "{", does not parse, or has no
\* session_id (or an empty one) changes nothing, and the lines behind it are
\* still ingested: the session map is the one the well-formed lines alone give,
\* the key order too, and every line was consumed.
C14_MalformedLineDropped ==
    /\ sessions = Replay(SelectSeq(hist, WellFormed))
    /\ DOMAIN sessions = {l.obj.session_id : l \in {x \in Range(hist) : WellFormed(x)}}
    /\ Range(sessions_keys) = DOMAIN sessions
    /\ Len(sessions_keys) = Cardinality(DOMAIN sessions)
    /\ nread = Len(hist)

\* C14 witness: an event of s1, then a line that does not parse, then an event
\* of s2: both sessions are in the map, s1 as its own event left it.
C14_Witness ==
    /\ Len(hist) = 3
    /\ WellFormed(hist[1]) /\ hist[1].obj.session_id = "s1"
    /\ hist[2].raw = "badjson"
    /\ WellFormed(hist[3]) /\ hist[3].obj.session_id = "s2"
    /\ sessions_keys = <<"s1", "s2">>
    /\ sessions["s1"] = Replay(<<hist[1]>>)["s1"]

\* the display group of a state: every RUN:* state is in one group
StateGroup(state) ==
    CASE state = "FRESH" -> 0
      [] state = "PERMIT" -> 1
      [] state = "QUESTION" -> 2
      [] state = "IDLE" -> 3
      [] state = "DEAD" -> 5
      [] OTHER -> 4

\* how often a record occurs in a list
Occurrences(s, r) == Cardinality({i \in 1..Len(s) : s[i] = r})

\* C15: the emitted records are sorted by group, FRESH < PERMIT < QUESTION <
\* IDLE < RUN:* < DEAD, and inside a group by timestamp descending: of two
\* consecutive records the first has a lower group, or the same group and a
\* timestamp that is not smaller; they are the records the loop produced.
C15_SortedByGroupThenTs ==
    pc = "done" =>
        /\ \A i \in 1..(Len(records) - 1) :
              \/ StateGroup(records[i].state) < StateGroup(records[i + 1].state)
              \/ /\ StateGroup(records[i].state) = StateGroup(records[i + 1].state)
                 /\ _ts_sortval(records[i]._ts) >= _ts_sortval(records[i + 1]._ts)
        /\ fn_rec # << >> =>
              /\ Len(records) = Len(fn_rec)
              /\ \A r \in Range(fn_rec) : Occurrences(records, r) = Occurrences(fn_rec, r)

\* C15 witness: a DEAD record, a later RUN:think and an earlier RUN:Bash came
\* out of the loop in another order than the one emitted, which has the two
\* RUN:* records first.
C15_Witness ==
    /\ pc = "done"
    /\ Len(records) = 3
    /\ fn_rec # records
    /\ records[1].state = "RUN:think"
    /\ records[2].state = "RUN:Bash"
    /\ _ts_sortval(records[1]._ts) > _ts_sortval(records[2]._ts)
    /\ records[3].state = "DEAD"

TmuxKeys == {"tmux_session", "tmux_window", "tmux_pane", "tmux_cwd", "tmux_target"}

\* a record list without its tmux_* fields
StripTmux(recs) ==
    [i \in 1..Len(recs) |-> [k \in DOMAIN recs[i] \ TmuxKeys |-> recs[i][k]]]

\* C17: the records of a pass and those of the same pass (same log, same
\* processes, same enumeration orders) under an empty pane map are the same,
\* in the same order, but for the tmux_* fields: session ids, state, match,
\* reason, cwd, start_cwd and all the rest are equal.
C17_TmuxNeverInfluences ==
    pc \in {"resolve", "done"} =>
        /\ StripTmux(records) = records_no_tmux
        /\ \A i \in 1..Len(records_no_tmux) : DOMAIN records_no_tmux[i] \cap TmuxKeys = {}

\* C17 witness: a pass under a pane map that is not empty has emitted two
\* records, one with a pane and one without.
C17_Witness ==
    /\ pc = "done"
    /\ pane_map # << >>
    /\ Len(records) = 2
    /\ \E i, j \in 1..2 :
          /\ "tmux_target" \in DOMAIN records[i]
          /\ "tmux_target" \notin DOMAIN records[j]
          /\ records[i].state # "DEAD"

\* the name project_name gives a path when asked with empty caches
FreshProjectName(path) == project_name(path, << >>, << >>, git_dirs, git_config).val

\* C19: at the start of every iteration of the watch loop both caches are
\* empty and the session map is empty; the session map is the one this pass's
\* lines alone give, and every record carries the project name that the
\* filesystem of this pass gives, so nothing of an earlier pass is left.
C19_PassesIndependent ==
    /\ (pc = "read" /\ nread = 0) =>
          /\ _git_root_cache = << >>
          /\ _remote_name_cache = << >>
          /\ sessions = << >>
          /\ sessions_keys = << >>
    /\ pc = "read" => (_git_root_cache = << >> /\ _remote_name_cache = << >>)
    /\ sessions = Replay(hist)
    /\ \A i \in 1..Len(records) :
          /\ records[i].session_id \in DOMAIN sessions
          /\ records[i].project =
                FreshProjectName(IF records[i].start_cwd # EmptyStr
                                 THEN records[i].start_cwd ELSE records[i].cwd)

\* C19 witness: the second iteration has emitted a record whose project name
\* is the one of the remote, found in this iteration.
C19_Witness ==
    /\ pass_no = 2
    /\ pc = "done"
    /\ Len(records) >= 1
    /\ records[1].project = Url_o_r[2]
    /\ _git_root_cache # << >>

\* C18: with an unchanged filesystem, a call project_name(p) that follows an
\* earlier call with the same p returns what that one returned, and makes no
\* existence check (and no read of a config): it is answered from the caches.
C18_CacheTransparent ==
    \A j \in 1..Len(proj_calls) : \A i \in 1..(j - 1) :
        proj_calls[i].path = proj_calls[j].path =>
            /\ proj_calls[j].raised = ""
            /\ proj_calls[j].val = proj_calls[i].val
            /\ proj_calls[j].exists = 0
            /\ proj_calls[j].reads = 0

\* C18 witness: project_name("/p/s") twice in a row, the repository being /p
\* with a remote: the first call checked two directories and read the config,
\* the second one nothing, and both returned the remote's name.
C18_Witness ==
    /\ Len(proj_calls) = 2
    /\ proj_calls[1].path = P_ps
    /\ proj_calls[2].path = P_ps
    /\ proj_calls[1].exists = 2
    /\ proj_calls[1].reads = 1
    /\ proj_calls[2].exists = 0
    /\ proj_calls[2].val = Url_o_r[2]

RECURSIVE Hop(_, _)
\* the pid k parent hops above pid, 0 when a parent on the way is missing or <= 1
Hop(pid, k) ==
    IF k = 0 THEN pid
    ELSE LET below == Hop(pid, k - 1)
         IN  IF below = 0 \/ below \notin DOMAIN proc_ppid \/ proc_ppid[below] <= 1 THEN 0
             ELSE proc_ppid[below]

\* the hops, up to a bound, at which the chain above pid meets a pane shell
PaneHops(pid, bound) ==
    {k \in 0..bound : Hop(pid, k) # 0 /\ Hop(pid, k) \in DOMAIN pane_map}

\* the record carries exactly the tmux fields of a pane
HasPane(record, ti) ==
    /\ {"tmux_session", "tmux_window", "tmux_pane", "tmux_cwd", "tmux_target"}
          \subseteq DOMAIN record
    /\ record.tmux_session = ti.session_name
    /\ record.tmux_window = ti.window_index
    /\ record.tmux_pane = ti.pane_index
    /\ record.tmux_cwd = ti.pane_cwd
    /\ record.tmux_target = TmuxTarget(ti)

HasNoPane(record) ==
    DOMAIN record \cap {"tmux_session", "tmux_window", "tmux_pane", "tmux_cwd", "tmux_target"}
        = {}

\* the record has the pane of the nearest pane shell within the bound, and no
\* tmux field when there is none
NearestPaneWithin(record, pid, bound) ==
    IF PaneHops(pid, bound) # {}
    THEN HasPane(record, pane_map[Hop(pid, Min(PaneHops(pid, bound)))])
    ELSE HasNoPane(record)

\* C16 as stated: the record of the session that claimed a pid carries the
\* pane of the nearest pid, at most 15 parent hops above it (the pid itself
\* being 0 hops) with no missing parent and no parent <= 1 before it, that is
\* in the pane map; without such a pid it carries no tmux field.
C16_NearestPaneWithin15Hops ==
    fn_ret.fn = "build_tmux_for_claude" => NearestPaneWithin(fn_ret.val, ChainBase, TmuxHops)

\* C16 amended: the same for at most 14 parent hops: the walk looks up 15
\* pids, the claimed one and 14 above it.
C16_NearestPaneWithin14Hops ==
    fn_ret.fn = "build_tmux_for_claude" =>
        NearestPaneWithin(fn_ret.val, ChainBase, TmuxHops - 1)

\* C16 witness: two pane shells above the claimed process, 3 and 14 hops up:
\* the record has the pane of the one 3 hops up.
C16_Witness ==
    /\ fn_ret.fn = "build_tmux_for_claude"
    /\ DOMAIN pane_map = {ChainBase + 3, ChainBase + 14}
    /\ PaneHops(ChainBase, TmuxHops) = {3, 14}
    /\ HasPane(fn_ret.val, pane_map[ChainBase + 3])

\* the nearest directory from path upwards (path itself first) that holds .git
NearestGitDir(path) ==
    LET parts == PathParts(path)
        hits == {n \in 1..Len(parts) : PathStr(SubSeq(parts, 1, n)) \in git_dirs}
    IN  IF hits = {} THEN None ELSE PathStr(SubSeq(parts, 1, Max(hits)))

\* the names the remotes of a repository give: origin's if its URL parses,
\* else that of any other remote whose URL parses
RemoteNames(root) ==
    LET read == Get(git_config, root, [kind |-> "OSError"])
        text == IF read.kind = "text" THEN read.remotes ELSE << >>
        names == {text[i].remote : i \in 1..Len(text)}
        parsed == {n \in names : _parse_org_repo(RemoteUrl(text, n)) # None}
    IN  {_parse_org_repo(RemoteUrl(text, n)) :
            n \in IF "origin" \in parsed THEN {"origin"} ELSE parsed}

\* the last two components of a path (the only one, when it has but one)
LastTwo(path) ==
    LET parts == PathParts(path)
    IN  JoinSlash(SubSeq(parts, Max({1, Len(parts) - 1}), Len(parts)))

\* a call followed the fallback chain
FollowsChain(call) ==
    LET root == NearestGitDir(call.path)
    IN  IF call.path = EmptyStr THEN call.val = <<"?">>
        ELSE IF root # None /\ RemoteNames(root) # {} THEN call.val \in RemoteNames(root)
        ELSE IF root # None THEN call.val = LastTwo(root)
        ELSE call.val = LastTwo(call.path)

\* C20 as stated: project_name follows the chain remote name, last two
\* components of the git root, last two components of the input path, "?" for
\* the empty path, and never raises when the configuration cannot be read.
C20_FallbackChain ==
    \A i \in 1..Len(proj_calls) :
        /\ proj_calls[i].raised = ""
        /\ FollowsChain(proj_calls[i])

\* the chain alone: every call that returns followed it
C20_ChainWhenReturning ==
    \A i \in 1..Len(proj_calls) : proj_calls[i].raised = "" => FollowsChain(proj_calls[i])

\* ------------------------------------------------------------- claims on the fan-out daemon
\* the positions of the newlines of a byte string
NLPos(bytes) == {i \in 1..Len(bytes) : bytes[i] = NL}

\* the position of the k-th newline
NthNL(bytes, k) ==
    CHOOSE i \in NLPos(bytes) : Cardinality({j \in NLPos(bytes) : j < i}) = k - 1

\* the complete lines of a byte string, each with its newline
LinesOf(bytes) ==
    [k \in 1..Cardinality(NLPos(bytes)) |->
        SubSeq(bytes, IF k = 1 THEN 1 ELSE NthNL(bytes, k - 1) + 1, NthNL(bytes, k))]

RECURSIVE Concat(_)
Concat(seqs) == IF seqs = << >> THEN << >> ELSE Head(seqs) \o Concat(Tail(seqs))

\* a is the beginning of b and not all of it
IsStrictPrefix(a, b) == IsPrefix(a, b) /\ Len(a) < Len(b)

\* the lines fanned out while the far end of c could take them, one after another
Delivered(c) ==
    Concat([i \in 1..Len(fan_log) |->
              IF c \in fan_log[i].healthy THEN fan_log[i].line ELSE << >>])

\* what reached client c before the i-th fan_out
GotBefore(i, c) == IF i = 1 THEN << >> ELSE fan_log[i - 1].got[c]

\* C21: the lines fanned out are the complete lines read from stdin, in their
\* order; every accepted subscriber whose far end can take a line when it is
\* fanned out gets exactly one copy of it, appended to what it got before, so
\* that what reaches a subscriber is the lines it was healthy for, in stdin
\* order, followed at most by the beginning of the line it failed on.
C21_EveryHealthySubscriberGetsEveryLine ==
    /\ [i \in 1..Len(fan_log) |-> fan_log[i].line] = LinesOf(stdin_read)
    /\ lines_total = Len(fan_log)
    /\ \A i \in 1..Len(fan_log) :
          \A c \in fan_log[i].healthy :
              fan_log[i].got[c] = GotBefore(i, c) \o fan_log[i].line
    /\ \A c \in 1..MaxClients :
          /\ IsPrefix(Delivered(c), sub_io.received[c])
          /\ \/ sub_io.received[c] = Delivered(c)
             \/ \E i \in 1..Len(fan_log) :
                   /\ c \in Range(fan_log[i].before) \ fan_log[i].healthy
                   /\ IsStrictPrefix(SubSeq(sub_io.received[c], Len(Delivered(c)) + 1,
                                            Len(sub_io.received[c])),
                                     fan_log[i].line)

\* C21 witness: two subscribers have each received the same two different
\* lines, in the order of stdin.
C21_Witness ==
    /\ Len(fan_log) = 2
    /\ fan_log[1].line # fan_log[2].line
    /\ Len(subscribers) = 2
    /\ \A c \in Range(subscribers) :
          sub_io.received[c] = fan_log[1].line \o fan_log[2].line

\* the subscribers of a list whose far end can take the line, in list order
Survivors(entry) ==
    SelectSeq(entry.before, LAMBDA c : c \in entry.healthy)

LinesAfter(k) ==
    LET lines == LinesOf(stdin_read)
    IN  Concat(SubSeq(lines, k + 1, Len(lines)))

\* C23: no complete line is kept in the buffer, whoever is connected: every
\* complete line read has been fanned out and counted, and one fanned out to an
\* empty list went to nobody. What reached a subscriber is the beginning of the
\* lines completed after it was accepted; a client never accepted got nothing.
C23_NoBufferingNoReplay ==
    /\ ~HasNL(stdin_buf)
    /\ lines_total = Cardinality(NLPos(stdin_read))
    /\ \A i \in 1..Len(fan_log) :
          fan_log[i].before = << >> =>
              /\ fan_log[i].ret = 0
              /\ fan_log[i].after = << >>
              /\ \A c \in 1..MaxClients : fan_log[i].got[c] = GotBefore(i, c)
    /\ \A c \in 1..MaxClients :
          IF c \in DOMAIN accepted_at
          THEN IsPrefix(sub_io.received[c], LinesAfter(accepted_at[c]))
          ELSE sub_io.received[c] = << >>

\* C23 witness: the first line was read with no subscriber; a subscriber
\* accepted after it has the second line and nothing of the first.
C23_Witness ==
    /\ Len(fan_log) = 2
    /\ fan_log[1].before = << >>
    /\ fan_log[1].line # fan_log[2].line
    /\ \E c \in DOMAIN accepted_at :
          /\ accepted_at[c] = 1
          /\ sub_io.received[c] = fan_log[2].line

\* the daemon has ended with status 0 and nothing left behind
FanoutClean ==
    /\ pc = "exited"
    /\ exit_status = 0
    /\ ~listener_open
    /\ ~socket_file
    /\ DOMAIN accepted_at \subseteq sub_io.closed

\* C24: from the moment stdin is at EOF the daemon eventually ends, with status
\* 0, every accepted subscriber and the listener closed and the socket file
\* removed.
C24_ShutdownAtEOF == stdin_closed ~> FanoutClean

\* C24 witness: the daemon has left the loop on EOF with two subscribers
\* connected, one of them still reading, and both are closed.
C24_Witness ==
    /\ FanoutClean
    /\ shutdown_msg = "stdin EOF"
    /\ Len(subscribers) = 2
    /\ \E c \in Range(subscribers) : sub_io.peer[c].st = "reading"
    /\ lines_total >= 1

\* ------------------------------------------------------------- claims on the servers
\* the requests handled that were POSTs
PostEntries == SelectSeq(srv_log, LAMBDA entry : entry.method = "POST")

\* the output readers of the servers: a write that reaches the readers drops
\* exactly those whose far end is gone and closes them; the others stay, in
\* order, each with the line
C22_OutputReadersIsolated ==
    \A i \in 1..Len(srv_log) :
        LET entry == srv_log[i]
            failing == Range(entry.clients_before) \ entry.healthy
        IN  (entry.line # << >> /\ srv_conf.output_socket) =>
                /\ entry.clients_after = SelectSeq(entry.clients_before,
                                                   LAMBDA c : c \in entry.healthy)
                /\ failing \subseteq out_io.closed
                /\ \A c \in failing : out_io.received[c] = entry.got_before[c]
                /\ \A c \in entry.healthy : entry.got_after[c] = entry.got_before[c] \o entry.line

\* C25: a line written by the server goes to stdout only when there is no
\* output socket, to the connected readers only (stdout untouched) with an
\* output socket and no --tee, and to stdout and every connected reader with an
\* output socket and --tee.
C25_WriteRoutesByConfiguration ==
    \A i \in 1..Len(srv_log) :
        LET entry == srv_log[i]
            on_stdout == entry.stdout_after = entry.stdout_before \o entry.line
            not_on_stdout == entry.stdout_after = entry.stdout_before
            to_readers ==
                \A c \in 1..MaxClients :
                    entry.got_after[c] =
                        IF c \in entry.healthy THEN entry.got_before[c] \o entry.line
                        ELSE entry.got_before[c]
            to_no_reader == entry.got_after = entry.got_before
        IN  entry.line # << >> =>
                IF ~srv_conf.output_socket THEN on_stdout /\ to_no_reader
                ELSE IF ~srv_conf.tee THEN not_on_stdout /\ to_readers
                ELSE on_stdout /\ to_readers

\* C25 witness: with an output socket and --tee a line has been written to
\* stdout and to both connected readers.
C25_Witness ==
    /\ srv_conf.output_socket
    /\ srv_conf.tee
    /\ Len(srv_log) = 1
    /\ srv_stdout = srv_log[1].line
    /\ srv_stdout # << >>
    /\ Len(_clients) = 2
    /\ \A c \in Range(_clients) : out_io.received[c] = srv_log[1].line

\* what the server emitted, to stdout or to the output socket
Emitted == Concat([i \in 1..Len(srv_log) |-> srv_log[i].line])

\* C26 as stated: every POST is answered with 200 and an empty body and emits
\* exactly one event, in request order, whatever its event name and body.
C26_EveryPostAnswered200 ==
    /\ \A i \in 1..Len(PostEntries) :
          /\ PostEntries[i].response = [status |-> 200, body |-> ""]
          /\ Len(PostEntries[i].line) = 1
    /\ Len(Emitted) = Len(PostEntries)
    /\ pc = "serving"

\* the same for the bodies that are empty, a JSON object, or no JSON at all
C26_AnsweredUnlessRaised ==
    \A i \in 1..Len(PostEntries) :
        PostEntries[i].req.body.kind \in {"empty", "object", "text"} =>
            /\ PostEntries[i].response = [status |-> 200, body |-> ""]
            /\ Len(PostEntries[i].line) = 1
            /\ PostEntries[i].line[1].obj._event = EventOf(PostEntries[i].req.query)
                   \/ "_event" \in DOMAIN PostEntries[i].req.body.val

\* C27 as stated: the _event of every emitted event is the event name of the
\* query, and its _ts the time of the server.
C27_EventFromQuery ==
    \A i \in 1..Len(PostEntries) :
        PostEntries[i].line # << >> =>
            /\ PostEntries[i].line[1].obj._event = EventOf(PostEntries[i].req.query)
            /\ PostEntries[i].line[1].obj._ts = PostEntries[i].now

\* the same for the payloads that carry no _event and no _ts of their own
C27_EventFromQueryUnlessInPayload ==
    \A i \in 1..Len(PostEntries) :
        (PostEntries[i].line # << >> /\ PostEntries[i].req.body.kind = "object"
            /\ {"_event", "_ts"} \cap DOMAIN PostEntries[i].req.body.val = {}) =>
            /\ PostEntries[i].line[1].obj._event = EventOf(PostEntries[i].req.query)
            /\ PostEntries[i].line[1].obj._ts = PostEntries[i].now

\* ------------------------------------------------------------- claims on install-hooks.py
\* the runs that installed with merge_settings(replace=False)
IsMergeRun(run) == run.action = "install" /\ ~run.replace

\* the hooks dict of a settings dict ({} when it has none)
HooksOf(settings) == Get(settings, "hooks", << >>)

\* every top-level key but hooks is as it was
OtherKeysKept(run) ==
    /\ DOMAIN run.after \ {"hooks"} = DOMAIN run.before \ {"hooks"}
    /\ \A k \in DOMAIN run.before \ {"hooks"} : run.after[k] = run.before[k]

\* C28 as stated: a merge keeps every top-level key other than hooks, keeps
\* every hook entry the user had, for any event, and adds the observatory hooks.
C28_MergePreservesExisting ==
    \A i \in 1..Len(inst_log) :
        LET run == inst_log[i]
        IN  IsMergeRun(run) =>
                /\ OtherKeysKept(run)
                /\ \A event \in DOMAIN HooksOf(run.before) :
                      /\ event \in DOMAIN HooksOf(run.after)
                      /\ Range(HooksOf(run.before)[event]) \subseteq
                             Range(HooksOf(run.after)[event])
                /\ \A event \in Range(HOOK_EVENTS) :
                      /\ event \in DOMAIN HooksOf(run.after)
                      /\ Range(generate_hook_config(run.port, DEFAULT_BIND)["hooks"][event])
                             \subseteq Range(HooksOf(run.after)[event])

\* the same, with the user's entries kept only for the events the observatory
\* does not hook
C28_MergeKeepsOtherKeysAndEvents ==
    \A i \in 1..Len(inst_log) :
        LET run == inst_log[i]
        IN  IsMergeRun(run) =>
                /\ OtherKeysKept(run)
                /\ \A event \in DOMAIN HooksOf(run.before) \ Range(HOOK_EVENTS) :
                      /\ event \in DOMAIN HooksOf(run.after)
                      /\ HooksOf(run.after)[event] = HooksOf(run.before)[event]
                /\ \A event \in Range(HOOK_EVENTS) :
                      /\ event \in DOMAIN HooksOf(run.after)
                      /\ HooksOf(run.after)[event] =
                             generate_hook_config(run.port, DEFAULT_BIND)["hooks"][event]

\* the entry without its hooks
EntryFrame(config) == [k \in DOMAIN config \ {"hooks"} |-> config[k]]

\* the hook commands of an event, one after another, each with the rest of its
\* entry (the matcher); those with the marker left out when skip holds
RECURSIVE HookList(_, _, _)
HookList(configs, marker, skip) ==
    IF configs = << >> THEN << >>
    ELSE LET config == Head(configs)
             hooks_list == Get(config, "hooks", << >>)
             wanted == SelectSeq(hooks_list,
                                 LAMBDA h : ~(skip /\ IsInfix(marker, Get(h, "command", << >>))))
         IN  [j \in 1..Len(wanted) |-> <<EntryFrame(config), wanted[j]>>]
             \o HookList(Tail(configs), marker, skip)

\* C29: an uninstall leaves every settings key other than hooks as it was; in
\* the hooks, no command with the marker is left, every other command is still
\* there with its entry's matcher and in its order, no entry and no event is
\* left without a hook, an event is gone only when it had no other command, and
\* the hooks key is gone exactly when no event is left.
C29_UninstallRemovesOnlyObservatoryHooks ==
    \A i \in 1..Len(inst_log) :
        LET run == inst_log[i]
            marker == ObservatoryMarker(run.port, DEFAULT_BIND)
            before == HooksOf(run.before)
            after == HooksOf(run.after)
        IN  run.action = "uninstall" =>
                /\ OtherKeysKept(run)
                /\ DOMAIN after \subseteq DOMAIN before
                /\ \A event \in DOMAIN before :
                      LET others == HookList(before[event], marker, TRUE)
                      IN  IF others = << >> THEN event \notin DOMAIN after
                          ELSE /\ event \in DOMAIN after
                               /\ HookList(after[event], marker, FALSE) = others
                               /\ \A j \in 1..Len(after[event]) :
                                     Get(after[event][j], "hooks", << >>) # << >>
                /\ "hooks" \in DOMAIN run.after <=>
                      ("hooks" \in DOMAIN run.before /\ DOMAIN after # {})

\* C29 witness: an uninstall took the observatory hook out of an entry that
\* keeps the two hooks of the user, dropped an event that had nothing else, and
\* kept the hooks key.
C29_Witness ==
    \E i \in 1..Len(inst_log) :
        LET run == inst_log[i]
        IN  /\ run.action = "uninstall"
            /\ "hooks" \in DOMAIN run.after
            /\ "Stop" \in DOMAIN run.before["hooks"]
            /\ "Stop" \notin DOMAIN run.after["hooks"]
            /\ "PreToolUse" \in DOMAIN run.after["hooks"]
            /\ run.after["hooks"]["PreToolUse"] =
                   <<[matcher |-> "Bash",
                      hooks |-> <<UserHook("echo hi"), UserHook("echo again")>>]>>

\* ------------------------------------------------------------- claims on pid and method
\* the pid match_session_to_claude_pid gives for the record and the candidates
\* that _liveness_check was called with
PidForCall == match_session_to_claude_pid(fn_rec, fn_map)

\* C30 as stated: whenever _liveness_check returns a method tag, in whatever
\* order it enumerates the candidates, match_session_to_claude_pid returns a
\* pid for the same candidates and the cwd of that pid satisfies the condition
\* of the layer the tag names.
C30_PidAgreesWithMethod ==
    (fn_ret.fn = "_liveness_check" /\ fn_ret.val # "") =>
        /\ PidForCall # NoPid
        /\ LayerHolds(fn_ret.val, fn_rec, {CwdOfPid(fn_map, PidForCall)})

\* the same for the calls in which the tag returned is that of the first layer
\* in priority order that some candidate satisfies
C30_PidAgreesWithFirstLayer ==
    (/\ fn_ret.fn = "_liveness_check"
     /\ fn_ret.val # ""
     /\ fn_ret.val = FirstLayer(fn_rec, CwdSet(fn_map))) =>
        /\ PidForCall # NoPid
        /\ LayerHolds(fn_ret.val, fn_rec, {CwdOfPid(fn_map, PidForCall)})

\* a pid is found exactly when a method tag is returned
C30_PidIffMethod ==
    fn_ret.fn = "_liveness_check" => (fn_ret.val # "" <=> PidForCall # NoPid)

\* the call C30 fails on: the tag is ancestor:last, the pid is that of a process
\* whose cwd contains start_cwd and not cwd
C30_Disagreement ==
    /\ fn_ret.fn = "_liveness_check"
    /\ fn_ret.val = "ancestor:last"
    /\ PidForCall # NoPid
    /\ IsDescendant(fn_rec.start_cwd, CwdOfPid(fn_map, PidForCall))
    /\ ~IsDescendant(fn_rec.cwd, CwdOfPid(fn_map, PidForCall))

\* ------------------------------------------------------------- claims on the pass, continued
\* C31: for every session of the pass that is not terminated, the state is DEAD
\* exactly when the match method is empty and exactly when no pid was found;
\* a pid that was found is always claimed.
C31_DeadNoMethodNoPidCoincide ==
    \A sid \in DOMAIN resolved :
        LET r == resolved[sid]
        IN  /\ ~sessions[sid].terminated
            /\ (r.state = "DEAD") <=> (r.match = "")
            /\ (r.match = "") <=> (r.pid = NoPid)
            /\ r.pid # NoPid => (r.claimed /\ r.pid \in claimed_pids)

\* C31 witness: a pass is over in which one session found a pid through an
\* ancestry layer and claimed it, and another found none and is DEAD.
C31_Witness ==
    /\ pc = "done"
    /\ \E a, b \in DOMAIN resolved :
          /\ resolved[a].pid # NoPid
          /\ resolved[a].claimed
          /\ resolved[a].match = "ancestor:start"
          /\ resolved[a].state # "DEAD"
          /\ resolved[b].pid = NoPid
          /\ resolved[b].state = "DEAD"
          /\ resolved[b].match = ""

\* the sessions still to be offered candidates, in the order of the loop, have
\* timestamps that never increase
OfferedDescending ==
    \A i, j \in 1..Len(sorted_sids) :
        (i < j /\ HasTs(sorted_sids[i]) /\ HasTs(sorted_sids[j]))
            => TsOf(sorted_sids[i]) >= TsOf(sorted_sids[j])

C32_ClaimingOrderAfterEpoch ==
    /\ OfferedDescending
    /\ \A i, j \in 1..Len(sorted_sids) :
          (~HasTs(sorted_sids[i]) /\ HasTs(sorted_sids[j]) /\ TsOf(sorted_sids[j]) > 0)
              => j < i

\* what follows from the order: the pass is over, one process in /p, a session
\* whose _ts does not parse has claimed it and a session whose _ts is a time
\* before the epoch is DEAD
C32_UnparsableWins ==
    /\ pc = "done"
    /\ Len(pid_cwd_map) = 1
    /\ \E a, b \in DOMAIN resolved :
          /\ ~HasTs(a) /\ resolved[a].claimed
          /\ HasTs(b) /\ TsOf(b) < 0 /\ resolved[b].state = "DEAD"

\* ------------------------------------------------------------- claims on the reason
\* the call is for a record that a pass can hold (the session is not terminated,
\* its last event, if any, is of a tracked kind) and gave one of the states
ReasonFor(states) ==
    /\ fn_ret.fn = "state_reason"
    /\ ~fn_rec.terminated
    /\ fn_rec.last_event = None \/ _is_tracked_event(fn_rec.last_event)
    /\ fn_ret.val.state \in states

\* C33 as stated: the reason is empty for every record whose state is FRESH,
\* IDLE or a RUN:* state.
C33_ReasonEmptyForFreshIdleRun ==
    ReasonFor({"FRESH", "IDLE"} \cup RunStates) => fn_ret.val.reason = EmptyStr

\* C33 amended: the reason is empty for every record whose state is FRESH, IDLE
\* or a RUN:* state other than RUN:done; for RUN:done it is "after " and the
\* tool (PostToolUse, PostToolUseFailure; "?" without tool_name) or "after agent"
\* (SubagentStop).
C33_ReasonEmptyUnlessRunDone ==
    /\ ReasonFor({"FRESH", "IDLE"} \cup (RunStates \ {"RUN:done"}))
          => fn_ret.val.reason = EmptyStr
    /\ ReasonFor({"RUN:done"}) =>
          fn_ret.val.reason =
              IF fn_rec.last_event._event = "SubagentStop" THEN <<"after agent">>
              ELSE <<"after ", Get(fn_rec.last_event, "tool_name", "?")>>

\* C33 witness: a record in state RUN:Bash, from a PreToolUse, has no reason.
C33_Witness ==
    /\ ReasonFor({"RUN:Bash"})
    /\ fn_rec.last_event._event = "PreToolUse"
    /\ fn_ret.val.reason = EmptyStr

\* ------------------------------------------------------------- claims on the bounded walks
\* a walk is under way
Walking == fn_ret.fn \in {"build_tmux_for_claude", "_find_git_root"} /\ ~fn_ret.done

\* the walk that was entered has returned
Walked == fn_ret.fn \in {"build_tmux_for_claude", "_find_git_root"} /\ fn_ret.done

\* at most 15 pids are looked at for each claude pid, at most 20 directories
\* in a call of _find_git_root
WalkWithinBounds ==
    /\ fn_ret.fn = "build_tmux_for_claude" =>
          \A i \in 1..Len(fn_ret.visited) : Len(fn_ret.visited[i]) <= 15
    /\ fn_ret.fn = "_find_git_root" => Len(fn_ret.walked) <= 20
    /\ \A i \in 1..Len(proj_calls) : Len(proj_calls[i].walked) <= 20

\* what the walks return is what build_tmux_for_claude and _find_git_root give
WalkAgrees ==
    /\ (fn_ret.fn = "build_tmux_for_claude" /\ fn_ret.done) =>
          tmux_for_claude = build_tmux_for_claude(fn_map, pane_map, proc_ppid)
    /\ \A i \in 1..Len(proj_calls) :
          LET c == proj_calls[i]
              f == _find_git_root(c.path, c.before, git_dirs)
          IN  c.val = f.result /\ c.walked = f.walked

\* C34: the ancestor walk of build_tmux_for_claude looks at no more than 15
\* pids for any claude pid and _find_git_root at no more than 20 directories,
\* and a walk that was entered returns, whatever the parent relation (a chain
\* longer than the bound, a cycle) and however deep the path.
C34_WalksTerminateWithinBounds == [](WalkWithinBounds /\ WalkAgrees) /\ (Walking ~> Walked)

\* C34 witness: the walk of build_tmux_for_claude has returned after looking at
\* 15 pids of a parent relation that is a cycle, none of them a pane shell.
C34_Witness ==
    /\ fn_ret.fn = "build_tmux_for_claude"
    /\ fn_ret.done
    /\ pane_map # << >>
    /\ Len(fn_ret.visited[1]) = 15
    /\ \E pid \in DOMAIN proc_ppid : proc_ppid[pid] = ChainBase
    /\ tmux_for_claude = << >>

\* ------------------------------------------------------------- claims on _find_git_root
RECURSIVE UpChain(_)
\* the directories from a path upward, the path itself first, the topmost last
UpChain(parts) ==
    <<PathStr(parts)>> \o
        (IF PathParent(parts) = parts THEN << >> ELSE UpChain(PathParent(parts)))

\* the first 20 directories of the upward chain of a path
First20(path) ==
    LET chain == UpChain(PathParts(path))
    IN  SubSeq(chain, 1, IF Len(chain) < 20 THEN Len(chain) ELSE 20)

\* the places among them that hold a .git entry
GitHits(path) == {i \in 1..Len(First20(path)) : First20(path)[i] \in git_dirs}

\* the nearest of them, None when there is none
NearestRoot(path) ==
    IF GitHits(path) = {} THEN None ELSE First20(path)[Min(GitHits(path))]

\* the directories a walk from the path has to look at
MustVisit(path) ==
    IF GitHits(path) = {} THEN First20(path)
    ELSE SubSeq(First20(path), 1, Min(GitHits(path)))

\* C35: a call of _find_git_root that starts from an empty cache returns the
\* nearest of the first 20 directories of the upward chain (the path itself
\* first) that holds a .git entry, None when none of them does; it has visited
\* the chain up to there, and afterwards every directory visited, and the path,
\* is cached with the value returned.
C35_NearestRootWithin20 ==
    \A i \in 1..Len(proj_calls) :
        LET c == proj_calls[i]
        IN  c.before = << >> =>
                /\ c.val = NearestRoot(c.path)
                /\ c.walked = MustVisit(c.path)
                /\ \A d \in Range(c.walked) \cup {c.path} :
                      d \in DOMAIN c.after /\ c.after[d] = c.val

\* C35 witness: a call from an empty cache found the repository in the 20th
\* directory it looked at.
C35_Witness ==
    \E i \in 1..Len(proj_calls) :
        /\ proj_calls[i].before = << >>
        /\ Len(proj_calls[i].walked) = 20
        /\ proj_calls[i].val # None
        /\ proj_calls[i].val = proj_calls[i].walked[20]

\* what a call on the path returns when the cache is empty
FreshRoot(path) == _find_git_root(path, << >>, git_dirs).result

\* C36 as stated: whatever calls came before, _find_git_root(p) returns what a
\* call on p with an empty cache returns.
C36_CacheTransparentToOrder ==
    \A i \in 1..Len(proj_calls) : proj_calls[i].val = FreshRoot(proj_calls[i].path)

\* the same, as long as no path asked for so far has more than 20 directories
\* on its upward chain
C36_TransparentWithinBound ==
    (\A i \in 1..Len(proj_calls) : Len(UpChain(PathParts(proj_calls[i].path))) <= 20)
        => C36_CacheTransparentToOrder

\* the call C36 fails on: a path answered None from the cache that an earlier,
\* deeper call left, although a walk from it finds a repository
C36_StaleNone ==
    \E i \in 1..Len(proj_calls) :
        /\ proj_calls[i].walked = << >>
        /\ proj_calls[i].val = None
        /\ FreshRoot(proj_calls[i].path) # None

\* ------------------------------------------------------------- claims on termination
\* C37: a session for which a SessionEnd has been ingested is terminated after
\* every later step of the pass, whatever event of it is ingested (a
\* SessionStart or a Stop of a resumed session too): its record is never
\* deleted, it is never offered a candidate, and no output record is made for
\* it.
C37_TerminationPermanent ==
    [][\A sid \in ended' \cup {s \in DOMAIN sessions : sessions[s].terminated} :
          /\ sid \in DOMAIN sessions'
          /\ sessions'[sid].terminated
          /\ sid \notin DOMAIN resolved'
          /\ \A i \in 1..Len(records') : records'[i].session_id # sid]_vars

\* C37 witness: the pass is over; a session whose SessionEnd was followed by a
\* SessionStart in the directory of the only live process is terminated, and
\* the process is claimed by nobody.
C37_Witness ==
    /\ pc = "done"
    /\ Len(pid_cwd_map) = 1
    /\ claimed_pids = {}
    /\ \E sid \in ended :
          /\ sessions[sid].terminated
          /\ sessions[sid].last_event._event = "SessionStart"
          /\ sessions[sid].start_cwd = pid_cwd_map[1][2]
          /\ sid \notin DOMAIN resolved

\* ------------------------------------------------------------- claims on the enumeration order
\* the states the pass has given
StatesGiven == [sid \in DOMAIN resolved |-> resolved[sid].state]

\* C38 as stated: the pass being over, every order of the same (pid, cwd)
\* pairs and every enumeration of the candidate cwd sets gives each session
\* the state it has been given.
C38_StatesIndependentOfOrder ==
    pc = "done" =>
        \A m \in MapOrders(pid_cwd_map) :
            PassStates(SortedSids(sessions, sessions_keys), sessions, m, {}) = {StatesGiven}

\* the same for the order /proc was read in: the states do not depend on how
\* the candidate cwd sets are enumerated
C38_StatesIndependentOfSetOrder ==
    pc = "done" =>
        PassStates(SortedSids(sessions, sessions_keys), sessions, pid_cwd_map, {})
            = {StatesGiven}

\* the pass C38 fails on: processes in /p and in /p/s, listed in this order;
\* the more recent session, started in /p/s/t, has claimed the one in /p, and
\* the session started in /p is DEAD
C38_DeadByListingOrder ==
    /\ pc = "done"
    /\ pid_cwd_map = << <<1, P_p>>, <<2, P_ps>> >>
    /\ \E a, b \in DOMAIN resolved :
          /\ sessions[a].start_cwd = P_pst /\ resolved[a].pid = 1
          /\ sessions[b].start_cwd = P_p /\ resolved[b].state = "DEAD"
          /\ \E o \in PassStates(SortedSids(sessions, sessions_keys), sessions,
                                 << <<2, P_ps>>, <<1, P_p>> >>, {}) : o[b] # "DEAD"

\* ------------------------------------------------------------- claims on the line framing
\* the position of the last newline read from stdin, 0 when there is none
LastNL == IF NLPos(stdin_read) = {} THEN 0 ELSE Max(NLPos(stdin_read))

\* the positions of stdin at which a line starts, less one
LineStarts == {0} \cup NLPos(stdin_read)

\* C39: in whatever chunks stdin was read, every line handed to fan_out ends
\* with its only newline, the lines handed over so far are, one after another,
\* the bytes of stdin up to the last newline read, the bytes after it wait in
\* the buffer and reach nobody (at EOF and after the exit too), and what a
\* subscriber has received is a run of those bytes that begins where a line
\* begins.
C39_LineFraming ==
    /\ \A i \in 1..Len(fan_log) :
          LET line == fan_log[i].line
          IN  NLPos(line) = {Len(line)}
    /\ Concat([i \in 1..Len(fan_log) |-> fan_log[i].line]) = SubSeq(stdin_read, 1, LastNL)
    /\ stdin_buf = SubSeq(stdin_read, LastNL + 1, Len(stdin_read))
    /\ \A c \in 1..MaxClients :
          \E start \in LineStarts :
              IsPrefix(sub_io.received[c], SubSeq(stdin_read, start + 1, LastNL))

\* C39 witness: stdin gave a line and the beginning of another one and was
\* closed; the daemon has exited at EOF, a subscriber has the line and nothing
\* of what followed it.
C39_Witness ==
    /\ pc = "exited"
    /\ shutdown_msg = "stdin EOF"
    /\ stdin_read = <<"x", NL, "x">>
    /\ stdin_buf = <<"x">>
    /\ \E c \in 1..MaxClients : sub_io.received[c] = <<"x", NL>>

====
